---- MODULE Spec2Model ----
(***************************************************************************)
(* Entropy-complex driver (sw/device/lib/crypto/drivers/entropy.c):        *)
(* entropy source, CSRNG and the two EDNs behind a register interface.     *)
(*                                                                         *)
(* Every driver function is an operator on a machine record                *)
(*   m = [regs, hw, trace, buf, ret, val]                                  *)
(* regs  : the configuration registers (they read back the last write)     *)
(* hw    : what the hardware answers on its status and data registers      *)
(* trace : every register access and buffer store of the call, in order    *)
(* buf   : the caller's output buffer                                      *)
(* ret   : the status_t the function returned; "HANG" stands for a call    *)
(*         that never returns (an open-ended polling loop that the         *)
(*         hardware never releases).                                       *)
(* val   : the value the last register read returned                       *)
(***************************************************************************)
EXTENDS Integers, Sequences, FiniteSets, TLC

VARIABLES
  regs,   \* the configuration registers of the four blocks
  cfg,    \* the configuration table as it stands in memory
  call,   \* the last call of the driver, or the event after it
  up,     \* what the last entropy_complex_init returned
  drift,  \* the registers that lost their value since then
  buf     \* the caller's output buffer

vars == <<regs, cfg, call, up, drift, buf>>

(***************************************************************************)
(* Bounds of the model.                                                    *)
(***************************************************************************)
\* Longest run of "not ready yet" answers before a status register turns ready.
MaxPoll == 1
\* Longest generate request, in 32-bit words.
MaxLen == 9

(***************************************************************************)
(* uint32_t: a 32-bit word is the pair <<high half, low half>> of 16-bit   *)
(* numbers, so that all arithmetic is modulo 2^32.                         *)
(***************************************************************************)
W(hi, lo) == <<hi, lo>>

U32(n) == <<(n \div 65536) % 65536, n % 65536>>

RECURSIVE BitAnd16(_, _)
BitAnd16(a, b) ==
  IF a = 0 \/ b = 0 THEN 0
  ELSE ((a % 2) * (b % 2)) + 2 * BitAnd16(a \div 2, b \div 2)

and32(a, b) == <<BitAnd16(a[1], b[1]), BitAnd16(a[2], b[2])>>

or32(a, b) == <<a[1] + b[1] - BitAnd16(a[1], b[1]),
                a[2] + b[2] - BitAnd16(a[2], b[2])>>

not32(a) == <<65535 - a[1], 65535 - a[2]>>

shl32(a, n) ==
  IF n = 0 THEN a
  ELSE IF n < 16
    THEN <<((a[1] % (2^(16 - n))) * (2^n)) + (a[2] \div (2^(16 - n))),
           (a[2] % (2^(16 - n))) * (2^n)>>
    ELSE <<(a[2] % (2^(32 - n))) * (2^(n - 16)), 0>>

shr32(a, n) ==
  IF n = 0 THEN a
  ELSE IF n < 16
    THEN <<a[1] \div (2^n),
           ((a[1] % (2^n)) * (2^(16 - n))) + (a[2] \div (2^n))>>
    ELSE <<0, a[1] \div (2^(n - 16))>>

Zero32 == W(0, 0)

(***************************************************************************)
(* bitfield.h                                                              *)
(***************************************************************************)
Field(mask, index) == [mask |-> mask, index |-> index]

bitfield_field32_read(bitfield, field) ==
  and32(shr32(bitfield, field.index), field.mask)

bitfield_field32_write(bitfield, field, value) ==
  or32(and32(bitfield, not32(shl32(field.mask, field.index))),
       shl32(and32(value, field.mask), field.index))

bitfield_bit32_read(bitfield, bit_index) ==
  bitfield_field32_read(bitfield, Field(U32(1), bit_index)) = U32(1)

bitfield_bit32_write(bitfield, bit_index, value) ==
  bitfield_field32_write(bitfield, Field(U32(1), bit_index),
                         IF value THEN U32(1) ELSE U32(0))

(***************************************************************************)
(* multibits.h, hardened.h, status.h                                       *)
(***************************************************************************)
kMultiBitBool4True == 6
kMultiBitBool4False == 9
kHardenedBoolTrue == \h739
kHardenedBoolFalse == \h1d4

OTCRYPTO_OK == "OK"
OTCRYPTO_RECOV_ERR == "RECOV_ERR"
OTCRYPTO_BAD_ARGS == "BAD_ARGS"
OUT_OF_RANGE == "OUT_OF_RANGE"
\* Not a status_t: the call never returns.
HANG == "HANG"

\* launder32 is an optimisation barrier: it returns its argument.
launder32(x) == x

(***************************************************************************)
(* Register map (csrng_regs.h, edn_regs.h, entropy_src_regs.h).  An        *)
(* address is <<base, offset>>.                                            *)
(***************************************************************************)
kBaseCsrng == "CSRNG"
kBaseEntropySrc == "ENTROPY_SRC"
kBaseEdn0 == "EDN0"
kBaseEdn1 == "EDN1"
kEntropyCsrngBitsBufferNumWords == 4

Reg(base, offset) == <<base, offset>>

ENTROPY_SRC_MODULE_ENABLE_REG_OFFSET == "MODULE_ENABLE"
ENTROPY_SRC_ENTROPY_CONTROL_REG_OFFSET == "ENTROPY_CONTROL"
ENTROPY_SRC_CONF_REG_OFFSET == "CONF"
ENTROPY_SRC_HEALTH_TEST_WINDOWS_REG_OFFSET == "HEALTH_TEST_WINDOWS"
ENTROPY_SRC_ALERT_THRESHOLD_REG_OFFSET == "ALERT_THRESHOLD"
\* ENTROPY_SRC_<name>_THRESHOLDS_REG_OFFSET
ENTROPY_SRC_THRESHOLDS_REG_OFFSET(name) ==
  CASE name = "REPCNT" -> "REPCNT_THRESHOLDS"
    [] name = "REPCNTS" -> "REPCNTS_THRESHOLDS"
    [] name = "ADAPTP_HI" -> "ADAPTP_HI_THRESHOLDS"
    [] name = "ADAPTP_LO" -> "ADAPTP_LO_THRESHOLDS"
    [] name = "BUCKET" -> "BUCKET_THRESHOLDS"
    [] name = "MARKOV_HI" -> "MARKOV_HI_THRESHOLDS"
    [] name = "MARKOV_LO" -> "MARKOV_LO_THRESHOLDS"
    [] name = "EXTHT_HI" -> "EXTHT_HI_THRESHOLDS"
    [] name = "EXTHT_LO" -> "EXTHT_LO_THRESHOLDS"

ThresholdNames ==
  <<"REPCNT", "REPCNTS", "ADAPTP_HI", "ADAPTP_LO", "BUCKET",
    "MARKOV_HI", "MARKOV_LO", "EXTHT_HI", "EXTHT_LO">>

ENTROPY_SRC_MODULE_ENABLE_REG_RESVAL == W(0, \h9)
ENTROPY_SRC_ENTROPY_CONTROL_REG_RESVAL == W(0, \h99)
ENTROPY_SRC_CONF_REG_RESVAL == W(\h90, \h9099)
ENTROPY_SRC_HEALTH_TEST_WINDOWS_REG_RESVAL == W(\h60, \h200)
ENTROPY_SRC_ALERT_THRESHOLD_REG_RESVAL == W(\hfffd, \h2)
\* ENTROPY_SRC_<name>_THRESHOLDS_REG_RESVAL: the high thresholds reset to all
\* ones, the low thresholds to zero.
ENTROPY_SRC_THRESHOLDS_REG_RESVAL(name) ==
  IF name \in {"ADAPTP_LO", "MARKOV_LO", "EXTHT_LO"}
    THEN W(0, 0) ELSE W(\hffff, \hffff)

ENTROPY_SRC_ENTROPY_CONTROL_ES_ROUTE_FIELD == Field(U32(\hf), 0)
ENTROPY_SRC_ENTROPY_CONTROL_ES_TYPE_FIELD == Field(U32(\hf), 4)
ENTROPY_SRC_CONF_FIPS_ENABLE_FIELD == Field(U32(\hf), 0)
ENTROPY_SRC_CONF_ENTROPY_DATA_REG_ENABLE_FIELD == Field(U32(\hf), 4)
ENTROPY_SRC_CONF_THRESHOLD_SCOPE_FIELD == Field(U32(\hf), 12)
ENTROPY_SRC_CONF_RNG_BIT_ENABLE_FIELD == Field(U32(\hf), 20)
ENTROPY_SRC_CONF_RNG_BIT_SEL_FIELD == Field(U32(\h3), 24)
ENTROPY_SRC_HEALTH_TEST_WINDOWS_FIPS_WINDOW_FIELD == Field(U32(\hffff), 0)
ENTROPY_SRC_ALERT_THRESHOLD_ALERT_THRESHOLD_FIELD == Field(U32(\hffff), 0)
ENTROPY_SRC_ALERT_THRESHOLD_ALERT_THRESHOLD_INV_FIELD == Field(U32(\hffff), 16)
\* ENTROPY_SRC_<name>_THRESHOLDS_FIPS_THRESH_FIELD
ENTROPY_SRC_THRESHOLDS_FIPS_THRESH_FIELD == Field(U32(\hffff), 0)

CSRNG_CTRL_REG_OFFSET == "CTRL"
CSRNG_CMD_REQ_REG_OFFSET == "CMD_REQ"
CSRNG_SW_CMD_STS_REG_OFFSET == "SW_CMD_STS"
CSRNG_GENBITS_VLD_REG_OFFSET == "GENBITS_VLD"
CSRNG_GENBITS_REG_OFFSET == "GENBITS"
CSRNG_INTR_STATE_REG_OFFSET == "INTR_STATE"
CSRNG_MAIN_SM_STATE_REG_OFFSET == "MAIN_SM_STATE"
CSRNG_CTRL_REG_RESVAL == W(0, \h999)
CSRNG_CTRL_ENABLE_FIELD == Field(U32(\hf), 0)
CSRNG_CTRL_SW_APP_ENABLE_FIELD == Field(U32(\hf), 4)
CSRNG_CTRL_READ_INT_STATE_FIELD == Field(U32(\hf), 8)
CSRNG_SW_CMD_STS_CMD_RDY_BIT == 0
CSRNG_SW_CMD_STS_CMD_STS_BIT == 1
CSRNG_GENBITS_VLD_GENBITS_VLD_BIT == 0
CSRNG_GENBITS_VLD_GENBITS_FIPS_BIT == 1
CSRNG_INTR_STATE_CS_CMD_REQ_DONE_BIT == 0

EDN_CTRL_REG_OFFSET == "CTRL"
EDN_SW_CMD_REQ_REG_OFFSET == "SW_CMD_REQ"
EDN_SW_CMD_STS_REG_OFFSET == "SW_CMD_STS"
EDN_RESEED_CMD_REG_OFFSET == "RESEED_CMD"
EDN_GENERATE_CMD_REG_OFFSET == "GENERATE_CMD"
EDN_MAX_NUM_REQS_BETWEEN_RESEEDS_REG_OFFSET == "MAX_NUM_REQS_BETWEEN_RESEEDS"
EDN_CTRL_REG_RESVAL == W(0, \h9999)
EDN_CTRL_EDN_ENABLE_FIELD == Field(U32(\hf), 0)
EDN_CTRL_BOOT_REQ_MODE_FIELD == Field(U32(\hf), 4)
EDN_CTRL_AUTO_REQ_MODE_FIELD == Field(U32(\hf), 8)
EDN_CTRL_CMD_FIFO_RST_FIELD == Field(U32(\hf), 12)
EDN_MAX_NUM_REQS_BETWEEN_RESEEDS_REG_RESVAL == W(0, 0)
EDN_SW_CMD_STS_CMD_RDY_BIT == 0
EDN_SW_CMD_STS_CMD_STS_BIT == 1

\* The registers that hold configuration (a read returns the last write), each
\* with its value after a hardware reset.
ResetValues ==
  {<<Reg(kBaseEntropySrc, ENTROPY_SRC_MODULE_ENABLE_REG_OFFSET),
     ENTROPY_SRC_MODULE_ENABLE_REG_RESVAL>>,
   <<Reg(kBaseEntropySrc, ENTROPY_SRC_ENTROPY_CONTROL_REG_OFFSET),
     ENTROPY_SRC_ENTROPY_CONTROL_REG_RESVAL>>,
   <<Reg(kBaseEntropySrc, ENTROPY_SRC_CONF_REG_OFFSET),
     ENTROPY_SRC_CONF_REG_RESVAL>>,
   <<Reg(kBaseEntropySrc, ENTROPY_SRC_HEALTH_TEST_WINDOWS_REG_OFFSET),
     ENTROPY_SRC_HEALTH_TEST_WINDOWS_REG_RESVAL>>,
   <<Reg(kBaseEntropySrc, ENTROPY_SRC_ALERT_THRESHOLD_REG_OFFSET),
     ENTROPY_SRC_ALERT_THRESHOLD_REG_RESVAL>>,
   <<Reg(kBaseCsrng, CSRNG_CTRL_REG_OFFSET), CSRNG_CTRL_REG_RESVAL>>,
   <<Reg(kBaseEdn0, EDN_CTRL_REG_OFFSET), EDN_CTRL_REG_RESVAL>>,
   <<Reg(kBaseEdn1, EDN_CTRL_REG_OFFSET), EDN_CTRL_REG_RESVAL>>,
   <<Reg(kBaseEdn0, EDN_MAX_NUM_REQS_BETWEEN_RESEEDS_REG_OFFSET),
     EDN_MAX_NUM_REQS_BETWEEN_RESEEDS_REG_RESVAL>>,
   <<Reg(kBaseEdn1, EDN_MAX_NUM_REQS_BETWEEN_RESEEDS_REG_OFFSET),
     EDN_MAX_NUM_REQS_BETWEEN_RESEEDS_REG_RESVAL>>}
  \cup {<<Reg(kBaseEntropySrc,
              ENTROPY_SRC_THRESHOLDS_REG_OFFSET(ThresholdNames[i])),
          ENTROPY_SRC_THRESHOLDS_REG_RESVAL(ThresholdNames[i])>> :
          i \in 1..Len(ThresholdNames)}

ConfigRegs == {p[1] : p \in ResetValues}

\* The register image after a hardware reset.
ResetImage == [a \in ConfigRegs |-> (CHOOSE p \in ResetValues : p[1] = a)[2]]

(***************************************************************************)
(* The hardware behind the status and data registers.  hw maps each such   *)
(* register to the answers it gives to successive reads; the last answer   *)
(* is given to every further read.                                         *)
(***************************************************************************)
\* A CSRNG may instead keep count of the words it owes: hw then has an entry
\* for its output FIFO, <<words, seed, extra>>: the generated words not yet
\* read from GENBITS, the seed words the command being written still lacks,
\* and the reads of GENBITS made while no word was owed.  Such a CSRNG shows
\* its generated bits valid, and FIPS-compatible, exactly while it owes words.
CsrngFifo == Reg(kBaseCsrng, "FIFO")

HasFifo(hw) == CsrngFifo \in DOMAIN hw

FifoWords(hw) == hw[CsrngFifo][1][1]

FifoVld(hw) ==
  IF FifoWords(hw) > 0
    THEN bitfield_bit32_write(
           bitfield_bit32_write(Zero32, CSRNG_GENBITS_VLD_GENBITS_VLD_BIT,
                                TRUE),
           CSRNG_GENBITS_VLD_GENBITS_FIPS_BIT, TRUE)
    ELSE Zero32

HwValue(hw, addr) ==
  IF HasFifo(hw) /\ addr = Reg(kBaseCsrng, CSRNG_GENBITS_VLD_REG_OFFSET)
    THEN FifoVld(hw)
    ELSE Head(hw[addr])

\* A read of GENBITS takes a word out of the FIFO.
FifoAfterRead(f) ==
  IF f[1] > 0 THEN <<f[1] - 1, f[2], f[3]>> ELSE <<f[1], f[2], f[3] + 1>>

HwAfterRead(hw, addr) ==
  IF HasFifo(hw) /\ addr = Reg(kBaseCsrng, CSRNG_GENBITS_REG_OFFSET)
    THEN [hw EXCEPT ![CsrngFifo] = <<FifoAfterRead(@[1])>>]
  ELSE IF Len(hw[addr]) > 1 THEN [hw EXCEPT ![addr] = Tail(@)] ELSE hw

\* A write to CMD_REQ is a seed word of the command being written or the
\* header of a new one; a generate command adds four words to the FIFO for
\* each block its header asks for.
FifoAfterWrite(f, value) ==
  IF f[2] > 0 THEN <<f[1], f[2] - 1, f[3]>>
  ELSE << f[1] + (IF value[2] % 16 = 3
                    THEN 4 * ((value[1] % 32768) * 16 + value[2] \div 4096)
                    ELSE 0),
          (value[2] \div 16) % 16,
          f[3] >>

HwAfterWrite(hw, addr, value) ==
  IF HasFifo(hw) /\ addr = Reg(kBaseCsrng, CSRNG_CMD_REQ_REG_OFFSET)
    THEN [hw EXCEPT ![CsrngFifo] = <<FifoAfterWrite(@[1], value)>>]
    ELSE hw

\* Every further read of addr returns the same value.
HwSettled(hw, addr) ==
  IF HasFifo(hw) /\ addr = Reg(kBaseCsrng, CSRNG_GENBITS_VLD_REG_OFFSET)
    THEN TRUE
    ELSE Len(hw[addr]) = 1

(***************************************************************************)
(* The machine.  A function that has returned an error, or that never      *)
(* returns, ends the call: HARDENED_TRY and `return f(...)` hand every     *)
(* status other than OTCRYPTO_OK straight up to the caller of the API, so  *)
(* a machine whose ret is not OTCRYPTO_OK takes no further step.           *)
(*                                                                         *)
(* The statements of a function are written as nested sets,                *)
(*   The({ last(m2) : m2 \in { second(m1) : m1 \in { first(m) }}})         *)
(* and run from the innermost set outwards; each set holds the one machine *)
(* its statement leaves behind.                                            *)
(***************************************************************************)
The(S) == CHOOSE x \in S : TRUE

Live(m) == m.ret = OTCRYPTO_OK

Return(m, status) == [m EXCEPT !.ret = status]

\* `if (cond) return status;` in a function that has not yet returned.
ReturnIf(m, cond, status) ==
  IF Live(m) /\ cond THEN Return(m, status) ELSE m

(***************************************************************************)
(* abs_mmio.h.  A trace entry counts n consecutive identical accesses.     *)
(***************************************************************************)
Access(op, addr, val, n) == [op |-> op, addr |-> addr, val |-> val, n |-> n]

abs_mmio_write32(m, addr, value) ==
  IF ~Live(m) THEN m
  ELSE [m EXCEPT
          !.regs = IF addr \in DOMAIN @ THEN [@ EXCEPT ![addr] = value] ELSE @,
          !.hw = HwAfterWrite(@, addr, value),
          !.trace = Append(@, Access("w", addr, value, 1))]

\* What a read of addr returns: the register's value, or the next answer of
\* the hardware.
RegValue(m, addr) ==
  IF addr \in DOMAIN m.regs THEN m.regs[addr] ELSE HwValue(m.hw, addr)

\* The machine after the read; its val is the value read.
abs_mmio_read32(m, addr) ==
  IF ~Live(m) THEN m
  ELSE The({ [m EXCEPT !.val = v,
                       !.hw = IF addr \in DOMAIN m.regs THEN @
                              ELSE HwAfterRead(@, addr),
                       !.trace = Append(@, Access("r", addr, v, 1))] :
             v \in {RegValue(m, addr)} })

\* do { reg = abs_mmio_read32(addr); } while (!bitfield_bit32_read(reg, bit));
\* The loop has no exit but the bit: when the hardware has settled on a value
\* without it, the call never returns.
RECURSIVE PollBit(_, _, _)
PollBit(m, addr, bit) ==
  IF ~Live(m) THEN m
  ELSE The({ IF bitfield_bit32_read(r.val, bit) THEN r
             ELSE IF HwSettled(m.hw, addr) THEN Return(r, HANG)
             ELSE PollBit(r, addr, bit) :
             r \in {abs_mmio_read32(m, addr)} })

(***************************************************************************)
(* Types and the configuration table.                                      *)
(***************************************************************************)
kEntropyDrbgOpInstantiate == 1
kEntropyDrbgOpReseed == 2
kEntropyDrbgOpGenerate == 3
kEntropyDrbgOpUpdate == 4
kEntropyDrbgOpUninstantiate == 5

kEntropyComplexConfigIdContinuous == 0

\* const entropy_seed_material_t *: NULL, or a view of len words at an address
\* that is misalign bytes past a word boundary.
NULL == [null |-> TRUE, len |-> 0, data |-> <<>>, misalign |-> 0]

SeedMaterial(data, misalign) ==
  [null |-> FALSE, len |-> Len(data), data |-> data, misalign |-> misalign]

entropy_csrng_cmd(id, disable_trng_input, seed_material, generate_len) ==
  [id |-> id, disable_trng_input |-> disable_trng_input,
   seed_material |-> seed_material, generate_len |-> generate_len]

\* A field the initialiser leaves out is zero.
kEntropyComplexConfigs ==
  [i \in {kEntropyComplexConfigIdContinuous} |->
    [id |-> 0,
     entropy_src |->
       [fips_enable |-> kMultiBitBool4True,
        route_to_firmware |-> kMultiBitBool4False,
        bypass_conditioner |-> kMultiBitBool4False,
        single_bit_mode |-> kMultiBitBool4False,
        fips_test_window_size |-> \h200,
        alert_threshold |-> 2,
        repcnt_threshold |-> \hffff,
        repcnts_threshold |-> \hffff,
        adaptp_hi_threshold |-> \hffff,
        adaptp_lo_threshold |-> 0,
        bucket_threshold |-> \hffff,
        markov_hi_threshold |-> \hffff,
        markov_lo_threshold |-> 0,
        extht_hi_threshold |-> \hffff,
        extht_lo_threshold |-> 0],
     edn0 |->
       [base_address |-> kBaseEdn0,
        reseed_interval |-> 32,
        instantiate |-> entropy_csrng_cmd(kEntropyDrbgOpInstantiate,
                                          kHardenedBoolFalse, NULL, 0),
        generate |-> entropy_csrng_cmd(kEntropyDrbgOpGenerate,
                                       kHardenedBoolFalse, NULL, 8),
        reseed |-> entropy_csrng_cmd(kEntropyDrbgOpReseed,
                                     kHardenedBoolFalse, NULL, 0)],
     edn1 |->
       [base_address |-> kBaseEdn1,
        reseed_interval |-> 4,
        instantiate |-> entropy_csrng_cmd(kEntropyDrbgOpInstantiate,
                                          kHardenedBoolFalse, NULL, 0),
        generate |-> entropy_csrng_cmd(kEntropyDrbgOpGenerate, 0, NULL, 1),
        reseed |-> entropy_csrng_cmd(kEntropyDrbgOpReseed,
                                     kHardenedBoolFalse, NULL, 0)]]]

(***************************************************************************)
(* csrng_fsm_idle_wait                                                     *)
(***************************************************************************)
kCsrngIdleNumTries == 100000
kCsrngMainSmIdle == \h4e

\* The last access of the trace stands for n accesses.
Repeated(m, n) == [m EXCEPT !.trace[Len(m.trace)].n = n]

\* for (i = 0; i < kCsrngIdleNumTries; ++i) { read; if idle return OK; }
\* Once the hardware has settled on a state that is not idle, every
\* remaining iteration reads that state: they are one trace entry.
RECURSIVE csrng_fsm_idle_wait_from(_, _)
csrng_fsm_idle_wait_from(m, i) ==
  IF ~Live(m) THEN m
  ELSE IF ~(i < kCsrngIdleNumTries) THEN Return(m, OTCRYPTO_RECOV_ERR)
  ELSE The({ IF r.val = U32(kCsrngMainSmIdle) THEN Return(r, OTCRYPTO_OK)
             ELSE IF HwSettled(m.hw, Reg(kBaseCsrng,
                                         CSRNG_MAIN_SM_STATE_REG_OFFSET))
               THEN Return(Repeated(r, kCsrngIdleNumTries - i),
                           OTCRYPTO_RECOV_ERR)
             ELSE csrng_fsm_idle_wait_from(r, i + 1) :
             r \in {abs_mmio_read32(
                      m, Reg(kBaseCsrng, CSRNG_MAIN_SM_STATE_REG_OFFSET))} })

\* Variant: a state machine that never comes idle does not stop the command.
csrng_fsm_idle_wait_unheeded(m) ==
  IF ~Live(m) THEN m
  ELSE The({ [r EXCEPT !.ret = OTCRYPTO_OK] :
             r \in { csrng_fsm_idle_wait_from(m, 0) }})

csrng_fsm_idle_wait(m) == csrng_fsm_idle_wait_from(m, 0)

(***************************************************************************)
(* csrng_send_app_cmd                                                      *)
(***************************************************************************)
\* Variant: the largest generate length is itself turned away.
kMaxGenerateSizeExclusive == \h800 - 1

kMaxGenerateSizeIn128BitBlocks == \h800
kAppCmdFieldFlag0 == Field(U32(\hf), 8)
kAppCmdFieldCmdId == Field(U32(\hf), 0)
kAppCmdFieldCmdLen == Field(U32(\hf), 4)
kAppCmdFieldGlen == Field(U32(\h7ffff), 12)

misalignment32_of(seed_material) == seed_material.misalign % 4

\* uint32_t cmd_len = cmd.seed_material == NULL ? 0 : cmd.seed_material->len;
CmdLen(cmd) == IF cmd.seed_material = NULL THEN 0 ELSE cmd.seed_material.len

\* Variant: the length of the seed material is not checked against the
\* length field.
AppCmdValidate_any_len(m, cmd) ==
  ReturnIf(m,
           cmd.seed_material # NULL /\ misalignment32_of(cmd.seed_material) # 0,
           OTCRYPTO_RECOV_ERR)

\* The two checks of the command's seed material.
AppCmdValidate(m, cmd) ==
  ReturnIf(
    ReturnIf(m,
             and32(U32(CmdLen(cmd)), not32(kAppCmdFieldCmdLen.mask)) # Zero32,
             OTCRYPTO_RECOV_ERR),
    cmd.seed_material # NULL /\ misalignment32_of(cmd.seed_material) # 0,
    OTCRYPTO_RECOV_ERR)

\* Variant: flag0 is set unless disable_trng_input is the false encoding.
AppCmdFlag0_unless_false(reg, cmd) ==
  IF launder32(cmd.disable_trng_input) # kHardenedBoolFalse
    THEN bitfield_field32_write(reg, kAppCmdFieldFlag0, U32(kMultiBitBool4True))
    ELSE reg

\* The header: command id, seed length, generate length, and flag0 only for a
\* disable_trng_input that is exactly kHardenedBoolTrue.
AppCmdFlag0(reg, cmd) ==
  IF launder32(cmd.disable_trng_input) = kHardenedBoolTrue
    THEN bitfield_field32_write(reg, kAppCmdFieldFlag0, U32(kMultiBitBool4True))
    ELSE reg

AppCmdHeader(cmd) ==
  AppCmdFlag0(
    bitfield_field32_write(
      bitfield_field32_write(
        bitfield_field32_write(Zero32, kAppCmdFieldCmdId, U32(cmd.id)),
        kAppCmdFieldCmdLen, U32(CmdLen(cmd))),
      kAppCmdFieldGlen, U32(cmd.generate_len)),
    cmd)

\* Variant: the seed words are written last word first.
RECURSIVE WriteSeedWordsBackwards(_, _, _, _)
WriteSeedWordsBackwards(m, reg_address, cmd, i) ==
  IF ~Live(m) \/ ~(i < CmdLen(cmd)) THEN m
  ELSE WriteSeedWordsBackwards(
         abs_mmio_write32(m, reg_address,
                          cmd.seed_material.data[CmdLen(cmd) - i]),
         reg_address, cmd, i + 1)

\* for (i = 0; i < cmd_len; ++i) abs_mmio_write32(reg_address, data[i]);
RECURSIVE WriteSeedWords(_, _, _, _)
WriteSeedWords(m, reg_address, cmd, i) ==
  IF ~Live(m) \/ ~(i < CmdLen(cmd)) THEN m
  ELSE WriteSeedWords(
         abs_mmio_write32(m, reg_address, cmd.seed_material.data[i + 1]),
         reg_address, cmd, i + 1)

\* Variant: cs_cmd_req_done is left as the previous command set it.
AppCmdClearDone_skipped(m, check_completion) == m

\* The clearing of cs_cmd_req_done before a command whose completion is
\* awaited.
AppCmdClearDone(m, check_completion) ==
  IF check_completion
    THEN abs_mmio_write32(
           m, Reg(kBaseCsrng, CSRNG_INTR_STATE_REG_OFFSET),
           bitfield_bit32_write(Zero32, CSRNG_INTR_STATE_CS_CMD_REQ_DONE_BIT,
                                TRUE))
    ELSE m

\* Variant: a command is taken to have succeeded as soon as it is done.
AppCmdCompletion_done_only(m, cmd, check_completion) ==
  IF ~check_completion THEN m
  ELSE IF cmd.id = kEntropyDrbgOpGenerate
    THEN PollBit(m, Reg(kBaseCsrng, CSRNG_GENBITS_VLD_REG_OFFSET),
                 CSRNG_GENBITS_VLD_GENBITS_VLD_BIT)
  ELSE PollBit(m, Reg(kBaseCsrng, CSRNG_INTR_STATE_REG_OFFSET),
               CSRNG_INTR_STATE_CS_CMD_REQ_DONE_BIT)

\* The wait for completion of a command sent with check_completion.
AppCmdCompletion(m, cmd, check_completion) ==
  IF ~check_completion THEN m
  ELSE IF cmd.id = kEntropyDrbgOpGenerate
    THEN PollBit(m, Reg(kBaseCsrng, CSRNG_GENBITS_VLD_REG_OFFSET),
                 CSRNG_GENBITS_VLD_GENBITS_VLD_BIT)
  ELSE The({ ReturnIf(r, bitfield_bit32_read(r.val,
                                             CSRNG_SW_CMD_STS_CMD_STS_BIT),
                      OTCRYPTO_RECOV_ERR) :
             r \in { abs_mmio_read32(
                       p, Reg(kBaseCsrng, CSRNG_SW_CMD_STS_REG_OFFSET)) :
             p \in { PollBit(m, Reg(kBaseCsrng, CSRNG_INTR_STATE_REG_OFFSET),
                             CSRNG_INTR_STATE_CS_CMD_REQ_DONE_BIT) }}})

csrng_send_app_cmd(m, reg_address, cmd, check_completion) ==
  IF ~Live(m) THEN m
  ELSE IF cmd.generate_len > kMaxGenerateSizeIn128BitBlocks
    THEN Return(m, OUT_OF_RANGE)
  ELSE The({ AppCmdCompletion(m6, cmd, check_completion) :
             m6 \in { WriteSeedWords(m5, reg_address, cmd, 0) :
             m5 \in { abs_mmio_write32(m4, reg_address, AppCmdHeader(cmd)) :
             m4 \in { AppCmdClearDone(m3, check_completion) :
             m3 \in { AppCmdValidate(m2, cmd) :
             m2 \in { PollBit(m1, Reg(kBaseCsrng, CSRNG_SW_CMD_STS_REG_OFFSET),
                              CSRNG_SW_CMD_STS_CMD_RDY_BIT) :
             m1 \in { csrng_fsm_idle_wait(m) }}}}}}})

(***************************************************************************)
(* CSRNG and EDN: configure, stop, ready.                                  *)
(***************************************************************************)
\* Variant: the software interface is enabled but not the CSRNG itself.
csrng_configure_app_only(m) ==
  abs_mmio_write32(
    m, Reg(kBaseCsrng, CSRNG_CTRL_REG_OFFSET),
    bitfield_field32_write(
      bitfield_field32_write(Zero32, CSRNG_CTRL_SW_APP_ENABLE_FIELD,
                             U32(kMultiBitBool4True)),
      CSRNG_CTRL_READ_INT_STATE_FIELD, U32(kMultiBitBool4True)))

csrng_configure(m) ==
  abs_mmio_write32(
    m, Reg(kBaseCsrng, CSRNG_CTRL_REG_OFFSET),
    bitfield_field32_write(
      bitfield_field32_write(
        bitfield_field32_write(Zero32, CSRNG_CTRL_ENABLE_FIELD,
                               U32(kMultiBitBool4True)),
        CSRNG_CTRL_SW_APP_ENABLE_FIELD, U32(kMultiBitBool4True)),
      CSRNG_CTRL_READ_INT_STATE_FIELD, U32(kMultiBitBool4True)))

\* Variant: the FIFO clear is taken back while the EDN is still enabled, and
\* the EDN disabled by a write of its own.
edn_stop_in_steps(m, edn_address) ==
  The({ abs_mmio_write32(m3, Reg(edn_address, EDN_CTRL_REG_OFFSET),
                         EDN_CTRL_REG_RESVAL) :
        m3 \in { abs_mmio_write32(
                   m2, Reg(edn_address, EDN_CTRL_REG_OFFSET),
                   bitfield_field32_write(m2.val, EDN_CTRL_CMD_FIFO_RST_FIELD,
                                          U32(kMultiBitBool4False))) :
        m2 \in { abs_mmio_write32(
                   m1, Reg(edn_address, EDN_CTRL_REG_OFFSET),
                   bitfield_field32_write(m1.val, EDN_CTRL_CMD_FIFO_RST_FIELD,
                                          U32(kMultiBitBool4True))) :
        m1 \in { abs_mmio_read32(m, Reg(edn_address, EDN_CTRL_REG_OFFSET)) }}}})

edn_stop(m, edn_address) ==
  The({ abs_mmio_write32(m2, Reg(edn_address, EDN_CTRL_REG_OFFSET),
                         EDN_CTRL_REG_RESVAL) :
        m2 \in { abs_mmio_write32(
                   m1, Reg(edn_address, EDN_CTRL_REG_OFFSET),
                   bitfield_field32_write(m1.val, EDN_CTRL_CMD_FIFO_RST_FIELD,
                                          U32(kMultiBitBool4True))) :
        m1 \in { abs_mmio_read32(m, Reg(edn_address, EDN_CTRL_REG_OFFSET)) }}})

edn_ready_block(m, edn_address) ==
  The({ ReturnIf(r, bitfield_bit32_read(r.val, EDN_SW_CMD_STS_CMD_STS_BIT),
                 OTCRYPTO_RECOV_ERR) :
        r \in { PollBit(m, Reg(edn_address, EDN_SW_CMD_STS_REG_OFFSET),
                        EDN_SW_CMD_STS_CMD_RDY_BIT) }})

\* Variant: the EDN is enabled in boot-request mode instead of auto-request
\* mode.
EdnCtrlValueBootReq ==
  bitfield_field32_write(
    bitfield_field32_write(Zero32, EDN_CTRL_EDN_ENABLE_FIELD,
                           U32(kMultiBitBool4True)),
    EDN_CTRL_BOOT_REQ_MODE_FIELD, U32(kMultiBitBool4True))

\* The value edn_configure writes to CTRL: enabled, in auto-request mode.
EdnCtrlValue ==
  bitfield_field32_write(
    bitfield_field32_write(Zero32, EDN_CTRL_EDN_ENABLE_FIELD,
                           U32(kMultiBitBool4True)),
    EDN_CTRL_AUTO_REQ_MODE_FIELD, U32(kMultiBitBool4True))

\* Variant: the instantiate command is sent before the EDN is enabled.
edn_configure_instantiate_first(m, config) ==
  The({ edn_ready_block(m6, config.base_address) :
        m6 \in { edn_ready_block(m5, config.base_address) :
        m5 \in { abs_mmio_write32(
                   m4, Reg(config.base_address, EDN_CTRL_REG_OFFSET),
                   EdnCtrlValue) :
        m4 \in { csrng_send_app_cmd(
                   m3, Reg(config.base_address, EDN_SW_CMD_REQ_REG_OFFSET),
                   config.instantiate, FALSE) :
        m3 \in { abs_mmio_write32(
                   m2, Reg(config.base_address,
                           EDN_MAX_NUM_REQS_BETWEEN_RESEEDS_REG_OFFSET),
                   U32(config.reseed_interval)) :
        m2 \in { csrng_send_app_cmd(
                   m1, Reg(config.base_address, EDN_GENERATE_CMD_REG_OFFSET),
                   config.generate, FALSE) :
        m1 \in { csrng_send_app_cmd(
                   m, Reg(config.base_address, EDN_RESEED_CMD_REG_OFFSET),
                   config.reseed, FALSE) }}}}}}})

edn_configure(m, config) ==
  The({ edn_ready_block(m6, config.base_address) :
        m6 \in { csrng_send_app_cmd(
                   m5, Reg(config.base_address, EDN_SW_CMD_REQ_REG_OFFSET),
                   config.instantiate, FALSE) :
        m5 \in { edn_ready_block(m4, config.base_address) :
        m4 \in { abs_mmio_write32(
                   m3, Reg(config.base_address, EDN_CTRL_REG_OFFSET),
                   EdnCtrlValue) :
        m3 \in { abs_mmio_write32(
                   m2, Reg(config.base_address,
                           EDN_MAX_NUM_REQS_BETWEEN_RESEEDS_REG_OFFSET),
                   U32(config.reseed_interval)) :
        m2 \in { csrng_send_app_cmd(
                   m1, Reg(config.base_address, EDN_GENERATE_CMD_REG_OFFSET),
                   config.generate, FALSE) :
        m1 \in { csrng_send_app_cmd(
                   m, Reg(config.base_address, EDN_RESEED_CMD_REG_OFFSET),
                   config.reseed, FALSE) }}}}}}})

(***************************************************************************)
(* Entropy source: stop, configure, check.                                 *)
(***************************************************************************)
\* Variant: the entropy source is disabled after its other registers are
\* reset.
entropy_src_stop_enable_last(m) ==
  The({ abs_mmio_write32(
          m4, Reg(kBaseEntropySrc, ENTROPY_SRC_MODULE_ENABLE_REG_OFFSET),
          ENTROPY_SRC_MODULE_ENABLE_REG_RESVAL) :
        m4 \in { abs_mmio_write32(
                   m3, Reg(kBaseEntropySrc,
                           ENTROPY_SRC_ALERT_THRESHOLD_REG_OFFSET),
                   ENTROPY_SRC_ALERT_THRESHOLD_REG_RESVAL) :
        m3 \in { abs_mmio_write32(
                   m2, Reg(kBaseEntropySrc,
                           ENTROPY_SRC_HEALTH_TEST_WINDOWS_REG_OFFSET),
                   ENTROPY_SRC_HEALTH_TEST_WINDOWS_REG_RESVAL) :
        m2 \in { abs_mmio_write32(
                   m1, Reg(kBaseEntropySrc, ENTROPY_SRC_CONF_REG_OFFSET),
                   ENTROPY_SRC_CONF_REG_RESVAL) :
        m1 \in { abs_mmio_write32(
                   m, Reg(kBaseEntropySrc,
                          ENTROPY_SRC_ENTROPY_CONTROL_REG_OFFSET),
                   ENTROPY_SRC_ENTROPY_CONTROL_REG_RESVAL) }}}}})

entropy_src_stop(m) ==
  The({ abs_mmio_write32(
          m4, Reg(kBaseEntropySrc, ENTROPY_SRC_ALERT_THRESHOLD_REG_OFFSET),
          ENTROPY_SRC_ALERT_THRESHOLD_REG_RESVAL) :
        m4 \in { abs_mmio_write32(
                   m3, Reg(kBaseEntropySrc,
                           ENTROPY_SRC_HEALTH_TEST_WINDOWS_REG_OFFSET),
                   ENTROPY_SRC_HEALTH_TEST_WINDOWS_REG_RESVAL) :
        m3 \in { abs_mmio_write32(
                   m2, Reg(kBaseEntropySrc, ENTROPY_SRC_CONF_REG_OFFSET),
                   ENTROPY_SRC_CONF_REG_RESVAL) :
        m2 \in { abs_mmio_write32(
                   m1, Reg(kBaseEntropySrc,
                           ENTROPY_SRC_ENTROPY_CONTROL_REG_OFFSET),
                   ENTROPY_SRC_ENTROPY_CONTROL_REG_RESVAL) :
        m1 \in { abs_mmio_write32(
                   m, Reg(kBaseEntropySrc, ENTROPY_SRC_MODULE_ENABLE_REG_OFFSET),
                   ENTROPY_SRC_MODULE_ENABLE_REG_RESVAL) }}}}})

\* Variant: the producers are stopped before their consumers.
entropy_complex_stop_all_producers_first(m) ==
  The({ edn_stop(m3, kBaseEdn1) :
        m3 \in { edn_stop(m2, kBaseEdn0) :
        m2 \in { abs_mmio_write32(m1, Reg(kBaseCsrng, CSRNG_CTRL_REG_OFFSET),
                                  CSRNG_CTRL_REG_RESVAL) :
        m1 \in { entropy_src_stop(m) }}}})

entropy_complex_stop_all(m) ==
  The({ entropy_src_stop(m3) :
        m3 \in { abs_mmio_write32(m2, Reg(kBaseCsrng, CSRNG_CTRL_REG_OFFSET),
                                  CSRNG_CTRL_REG_RESVAL) :
        m2 \in { edn_stop(m1, kBaseEdn1) :
        m1 \in { edn_stop(m, kBaseEdn0) }}}})

\* Variant: the threshold is written into a cleared register.
SET_FIPS_THRESH_from_zero(m, name, value) ==
  abs_mmio_write32(
    m, Reg(kBaseEntropySrc, ENTROPY_SRC_THRESHOLDS_REG_OFFSET(name)),
    bitfield_field32_write(Zero32, ENTROPY_SRC_THRESHOLDS_FIPS_THRESH_FIELD,
                           U32(value)))

SET_FIPS_THRESH(m, name, value) ==
  abs_mmio_write32(
    m, Reg(kBaseEntropySrc, ENTROPY_SRC_THRESHOLDS_REG_OFFSET(name)),
    bitfield_field32_write(ENTROPY_SRC_THRESHOLDS_REG_RESVAL(name),
                           ENTROPY_SRC_THRESHOLDS_FIPS_THRESH_FIELD, U32(value)))

\* The value entropy_src_configure writes to ENTROPY_CONTROL.
EntropyControlValue(config) ==
  bitfield_field32_write(
    bitfield_field32_write(Zero32, ENTROPY_SRC_ENTROPY_CONTROL_ES_ROUTE_FIELD,
                           U32(config.route_to_firmware)),
    ENTROPY_SRC_ENTROPY_CONTROL_ES_TYPE_FIELD, U32(config.bypass_conditioner))

\* The value entropy_src_configure writes to CONF.
ConfValue(config) ==
  bitfield_field32_write(
    bitfield_field32_write(
      bitfield_field32_write(
        bitfield_field32_write(
          bitfield_field32_write(Zero32, ENTROPY_SRC_CONF_FIPS_ENABLE_FIELD,
                                 U32(config.fips_enable)),
          ENTROPY_SRC_CONF_ENTROPY_DATA_REG_ENABLE_FIELD,
          U32(config.route_to_firmware)),
        ENTROPY_SRC_CONF_THRESHOLD_SCOPE_FIELD, U32(kMultiBitBool4False)),
      ENTROPY_SRC_CONF_RNG_BIT_ENABLE_FIELD, U32(config.single_bit_mode)),
    ENTROPY_SRC_CONF_RNG_BIT_SEL_FIELD, U32(0))

\* The alert threshold and, in the upper half, its complement.
AlertThresholdValue(config) ==
  bitfield_field32_write(
    bitfield_field32_write(Zero32,
                           ENTROPY_SRC_ALERT_THRESHOLD_ALERT_THRESHOLD_FIELD,
                           U32(config.alert_threshold)),
    ENTROPY_SRC_ALERT_THRESHOLD_ALERT_THRESHOLD_INV_FIELD,
    not32(U32(config.alert_threshold)))

\* The nine SET_FIPS_THRESH statements of entropy_src_configure.
SetThresholds(m, config) ==
  The({ SET_FIPS_THRESH(t8, "EXTHT_LO", config.extht_lo_threshold) :
        t8 \in { SET_FIPS_THRESH(t7, "EXTHT_HI", config.extht_hi_threshold) :
        t7 \in { SET_FIPS_THRESH(t6, "MARKOV_LO", config.markov_lo_threshold) :
        t6 \in { SET_FIPS_THRESH(t5, "MARKOV_HI", config.markov_hi_threshold) :
        t5 \in { SET_FIPS_THRESH(t4, "BUCKET", config.bucket_threshold) :
        t4 \in { SET_FIPS_THRESH(t3, "ADAPTP_LO", config.adaptp_lo_threshold) :
        t3 \in { SET_FIPS_THRESH(t2, "ADAPTP_HI", config.adaptp_hi_threshold) :
        t2 \in { SET_FIPS_THRESH(t1, "REPCNTS", config.repcnts_threshold) :
        t1 \in { SET_FIPS_THRESH(m, "REPCNT", config.repcnt_threshold)
               }}}}}}}}})

\* Variant: only a bypass flag that is exactly true is rejected.
entropy_src_configure_unless_true(m, config) ==
  IF ~Live(m) THEN m
  ELSE IF config.bypass_conditioner = kMultiBitBool4True
    THEN Return(m, OTCRYPTO_BAD_ARGS)
  ELSE
    The({ abs_mmio_write32(
            m5, Reg(kBaseEntropySrc, ENTROPY_SRC_MODULE_ENABLE_REG_OFFSET),
            U32(kMultiBitBool4True)) :
          m5 \in { SetThresholds(m4, config) :
          m4 \in { abs_mmio_write32(
                     m3, Reg(kBaseEntropySrc,
                             ENTROPY_SRC_ALERT_THRESHOLD_REG_OFFSET),
                     AlertThresholdValue(config)) :
          m3 \in { abs_mmio_write32(
                     m2, Reg(kBaseEntropySrc,
                             ENTROPY_SRC_HEALTH_TEST_WINDOWS_REG_OFFSET),
                     bitfield_field32_write(
                       ENTROPY_SRC_HEALTH_TEST_WINDOWS_REG_RESVAL,
                       ENTROPY_SRC_HEALTH_TEST_WINDOWS_FIPS_WINDOW_FIELD,
                       U32(config.fips_test_window_size))) :
          m2 \in { abs_mmio_write32(
                     m1, Reg(kBaseEntropySrc, ENTROPY_SRC_CONF_REG_OFFSET),
                     ConfValue(config)) :
          m1 \in { abs_mmio_write32(
                     m, Reg(kBaseEntropySrc,
                            ENTROPY_SRC_ENTROPY_CONTROL_REG_OFFSET),
                     EntropyControlValue(config)) }}}}}})

entropy_src_configure(m, config) ==
  IF ~Live(m) THEN m
  ELSE IF config.bypass_conditioner # kMultiBitBool4False
    THEN Return(m, OTCRYPTO_BAD_ARGS)
  ELSE
    The({ abs_mmio_write32(
            m5, Reg(kBaseEntropySrc, ENTROPY_SRC_MODULE_ENABLE_REG_OFFSET),
            U32(kMultiBitBool4True)) :
          m5 \in { SetThresholds(m4, config) :
          m4 \in { abs_mmio_write32(
                     m3, Reg(kBaseEntropySrc,
                             ENTROPY_SRC_ALERT_THRESHOLD_REG_OFFSET),
                     AlertThresholdValue(config)) :
          m3 \in { abs_mmio_write32(
                     m2, Reg(kBaseEntropySrc,
                             ENTROPY_SRC_HEALTH_TEST_WINDOWS_REG_OFFSET),
                     bitfield_field32_write(
                       ENTROPY_SRC_HEALTH_TEST_WINDOWS_REG_RESVAL,
                       ENTROPY_SRC_HEALTH_TEST_WINDOWS_FIPS_WINDOW_FIELD,
                       U32(config.fips_test_window_size))) :
          m2 \in { abs_mmio_write32(
                     m1, Reg(kBaseEntropySrc, ENTROPY_SRC_CONF_REG_OFFSET),
                     ConfValue(config)) :
          m1 \in { abs_mmio_write32(
                     m, Reg(kBaseEntropySrc,
                            ENTROPY_SRC_ENTROPY_CONTROL_REG_OFFSET),
                     EntropyControlValue(config)) }}}}}})

\* Variant: the threshold is read but a mismatch is let through.
VERIFY_FIPS_THRESH_ignored(m, name, exp) ==
  abs_mmio_read32(
    m, Reg(kBaseEntropySrc, ENTROPY_SRC_THRESHOLDS_REG_OFFSET(name)))

\* The macro returns OTCRYPTO_RECOV_ERR from the enclosing function on a
\* mismatch; otherwise the function goes on.
VERIFY_FIPS_THRESH(m, name, exp) ==
  The({ ReturnIf(r,
                 bitfield_field32_read(
                   r.val, ENTROPY_SRC_THRESHOLDS_FIPS_THRESH_FIELD) # U32(exp),
                 OTCRYPTO_RECOV_ERR) :
        r \in { abs_mmio_read32(
                  m, Reg(kBaseEntropySrc,
                         ENTROPY_SRC_THRESHOLDS_REG_OFFSET(name))) }})

\* The nine VERIFY_FIPS_THRESH statements of entropy_src_check.
VerifyThresholds(m, config) ==
  The({ VERIFY_FIPS_THRESH(v8, "EXTHT_LO", config.extht_lo_threshold) :
        v8 \in { VERIFY_FIPS_THRESH(v7, "EXTHT_HI", config.extht_hi_threshold) :
        v7 \in { VERIFY_FIPS_THRESH(v6, "MARKOV_LO", config.markov_lo_threshold) :
        v6 \in { VERIFY_FIPS_THRESH(v5, "MARKOV_HI", config.markov_hi_threshold) :
        v5 \in { VERIFY_FIPS_THRESH(v4, "BUCKET", config.bucket_threshold) :
        v4 \in { VERIFY_FIPS_THRESH(v3, "ADAPTP_LO", config.adaptp_lo_threshold) :
        v3 \in { VERIFY_FIPS_THRESH(v2, "ADAPTP_HI", config.adaptp_hi_threshold) :
        v2 \in { VERIFY_FIPS_THRESH(v1, "REPCNTS", config.repcnts_threshold) :
        v1 \in { VERIFY_FIPS_THRESH(m, "REPCNT", config.repcnt_threshold)
               }}}}}}}}})

\* One read of entropy_src_check and the comparison that follows it.
CheckModuleEnable(m) ==
  The({ ReturnIf(r, r.val # U32(kMultiBitBool4True), OTCRYPTO_RECOV_ERR) :
        r \in { abs_mmio_read32(
                  m, Reg(kBaseEntropySrc,
                         ENTROPY_SRC_MODULE_ENABLE_REG_OFFSET)) }})

CheckConf(m) ==
  The({ ReturnIf(r,
                 \/ bitfield_field32_read(r.val,
                                          ENTROPY_SRC_CONF_FIPS_ENABLE_FIELD)
                      # U32(kMultiBitBool4True)
                 \/ bitfield_field32_read(r.val,
                                          ENTROPY_SRC_CONF_RNG_BIT_ENABLE_FIELD)
                      # U32(kMultiBitBool4False),
                 OTCRYPTO_RECOV_ERR) :
        r \in { abs_mmio_read32(
                  m, Reg(kBaseEntropySrc, ENTROPY_SRC_CONF_REG_OFFSET)) }})

CheckEntropyControl(m) ==
  The({ ReturnIf(r,
                 \/ bitfield_field32_read(
                      r.val, ENTROPY_SRC_ENTROPY_CONTROL_ES_TYPE_FIELD)
                      # U32(kMultiBitBool4False)
                 \/ bitfield_field32_read(
                      r.val, ENTROPY_SRC_ENTROPY_CONTROL_ES_ROUTE_FIELD)
                      # U32(kMultiBitBool4False),
                 OTCRYPTO_RECOV_ERR) :
        r \in { abs_mmio_read32(
                  m, Reg(kBaseEntropySrc,
                         ENTROPY_SRC_ENTROPY_CONTROL_REG_OFFSET)) }})

CheckHealthTestWindow(m, config) ==
  The({ ReturnIf(r,
                 bitfield_field32_read(
                   r.val, ENTROPY_SRC_HEALTH_TEST_WINDOWS_FIPS_WINDOW_FIELD)
                   # U32(config.fips_test_window_size),
                 OTCRYPTO_RECOV_ERR) :
        r \in { abs_mmio_read32(
                  m, Reg(kBaseEntropySrc,
                         ENTROPY_SRC_HEALTH_TEST_WINDOWS_REG_OFFSET)) }})

CheckAlertThreshold(m, config) ==
  The({ ReturnIf(r, AlertThresholdValue(config) # r.val, OTCRYPTO_RECOV_ERR) :
        r \in { abs_mmio_read32(
                  m, Reg(kBaseEntropySrc,
                         ENTROPY_SRC_ALERT_THRESHOLD_REG_OFFSET)) }})

entropy_src_check(m, config) ==
  IF ~Live(m) THEN m
  ELSE IF \/ config.fips_enable # kMultiBitBool4True
          \/ config.bypass_conditioner # kMultiBitBool4False
          \/ config.route_to_firmware # kMultiBitBool4False
    THEN Return(m, OTCRYPTO_BAD_ARGS)
  ELSE
    The({ VerifyThresholds(m5, config) :
          m5 \in { CheckAlertThreshold(m4, config) :
          m4 \in { CheckHealthTestWindow(m3, config) :
          m3 \in { CheckEntropyControl(m2) :
          m2 \in { CheckConf(m1) :
          m1 \in { CheckModuleEnable(m) }}}}}})

\* Variant: the CSRNG passes unless its enable field reads exactly false.
csrng_check_unless_false(m) ==
  The({ ReturnIf(r,
                 bitfield_field32_read(r.val, CSRNG_CTRL_ENABLE_FIELD)
                   = U32(kMultiBitBool4False),
                 OTCRYPTO_RECOV_ERR) :
        r \in { abs_mmio_read32(m, Reg(kBaseCsrng, CSRNG_CTRL_REG_OFFSET)) }})

csrng_check(m) ==
  The({ ReturnIf(r,
                 bitfield_field32_read(r.val, CSRNG_CTRL_ENABLE_FIELD)
                   # U32(kMultiBitBool4True),
                 OTCRYPTO_RECOV_ERR) :
        r \in { abs_mmio_read32(m, Reg(kBaseCsrng, CSRNG_CTRL_REG_OFFSET)) }})

\* Variant: an EDN found out of its mode is put back into it.
edn_check_restoring(m, config) ==
  The({ IF Live(r) /\ r.val # EdnCtrlValue
          THEN Return(abs_mmio_write32(
                        r, Reg(config.base_address, EDN_CTRL_REG_OFFSET),
                        EdnCtrlValue),
                      OTCRYPTO_RECOV_ERR)
          ELSE r :
        r \in { abs_mmio_read32(
                  m, Reg(config.base_address, EDN_CTRL_REG_OFFSET)) }})

edn_check(m, config) ==
  The({ ReturnIf(r,
                 ~(/\ bitfield_field32_read(r.val, EDN_CTRL_EDN_ENABLE_FIELD)
                        = U32(kMultiBitBool4True)
                   /\ bitfield_field32_read(r.val, EDN_CTRL_AUTO_REQ_MODE_FIELD)
                        = U32(kMultiBitBool4True)),
                 OTCRYPTO_RECOV_ERR) :
        r \in { abs_mmio_read32(
                  m, Reg(config.base_address, EDN_CTRL_REG_OFFSET)) }})

(***************************************************************************)
(* entropy_complex_init, entropy_complex_check.  configs is the            *)
(* configuration table as the call finds it in memory.                     *)
(***************************************************************************)
\* if (launder32(config->id) != kEntropyComplexConfigIdContinuous) return ...
ConfigIdCheck(m, config) ==
  ReturnIf(m, launder32(config.id) # kEntropyComplexConfigIdContinuous,
           OTCRYPTO_RECOV_ERR)

\* Variant: the result of configuring EDN0 is dropped, and EDN1 is configured
\* whatever it was.
Dropped(m) ==
  IF m.ret = OTCRYPTO_RECOV_ERR THEN Return(m, OTCRYPTO_OK) ELSE m

entropy_complex_init_untried(m, configs) ==
  The({ edn_configure(Dropped(m5),
                      configs[kEntropyComplexConfigIdContinuous].edn1) :
        m5 \in { edn_configure(
                   m4, configs[kEntropyComplexConfigIdContinuous].edn0) :
        m4 \in { csrng_configure(m3) :
        m3 \in { entropy_src_configure(
                   m2, configs[kEntropyComplexConfigIdContinuous].entropy_src) :
        m2 \in { ConfigIdCheck(
                   m1, configs[kEntropyComplexConfigIdContinuous]) :
        m1 \in { entropy_complex_stop_all(m) }}}}}})

entropy_complex_init(m, configs) ==
  The({ edn_configure(m5, configs[kEntropyComplexConfigIdContinuous].edn1) :
        m5 \in { edn_configure(
                   m4, configs[kEntropyComplexConfigIdContinuous].edn0) :
        m4 \in { csrng_configure(m3) :
        m3 \in { entropy_src_configure(
                   m2, configs[kEntropyComplexConfigIdContinuous].entropy_src) :
        m2 \in { ConfigIdCheck(
                   m1, configs[kEntropyComplexConfigIdContinuous]) :
        m1 \in { entropy_complex_stop_all(m) }}}}}})

\* Variant: the CSRNG is checked before the entropy source.
entropy_complex_check_csrng_first(m, configs) ==
  The({ edn_check(m4, configs[kEntropyComplexConfigIdContinuous].edn1) :
        m4 \in { edn_check(
                   m3, configs[kEntropyComplexConfigIdContinuous].edn0) :
        m3 \in { entropy_src_check(
                   m2, configs[kEntropyComplexConfigIdContinuous].entropy_src) :
        m2 \in { csrng_check(m1) :
        m1 \in { ConfigIdCheck(
                   m, configs[kEntropyComplexConfigIdContinuous]) }}}}})

entropy_complex_check(m, configs) ==
  The({ edn_check(m4, configs[kEntropyComplexConfigIdContinuous].edn1) :
        m4 \in { edn_check(
                   m3, configs[kEntropyComplexConfigIdContinuous].edn0) :
        m3 \in { csrng_check(m2) :
        m2 \in { entropy_src_check(
                   m1, configs[kEntropyComplexConfigIdContinuous].entropy_src) :
        m1 \in { ConfigIdCheck(
                   m, configs[kEntropyComplexConfigIdContinuous]) }}}}})

(***************************************************************************)
(* entropy_csrng_generate_data_get                                         *)
(***************************************************************************)
ceil_div(a, b) == (a + b - 1) \div b

\* Variant: the words of a block are stored in the order they are read.
WordIdxForward(block_idx, offset) ==
  (block_idx * kEntropyCsrngBitsBufferNumWords) + offset

\* size_t word_idx = (block_idx * kEntropyCsrngBitsBufferNumWords) +
\*                   kEntropyCsrngBitsBufferNumWords - 1 - offset;
WordIdx(block_idx, offset) ==
  (block_idx * kEntropyCsrngBitsBufferNumWords)
    + kEntropyCsrngBitsBufferNumWords - 1 - offset

\* Variant: every word read is stored, whatever len.
StoreWordUnbounded(m, word_idx, len, word) ==
  IF Live(m)
    THEN [m EXCEPT !.buf[word_idx + 1] = word,
                   !.trace = Append(@, Access("b", <<"buf", word_idx>>,
                                              word, 1))]
    ELSE m

\* if (word_idx < len) { buf[word_idx] = word; }
\* buf[i] of the source is buf[i + 1] here; the store is logged in the trace.
StoreWord(m, word_idx, len, word) ==
  IF Live(m) /\ word_idx < len
    THEN [m EXCEPT !.buf[word_idx + 1] = word,
                   !.trace = Append(@, Access("b", <<"buf", word_idx>>,
                                              word, 1))]
    ELSE m

\* for (offset = 0; offset < kEntropyCsrngBitsBufferNumWords; ++offset)
RECURSIVE ReadBlock(_, _, _, _)
ReadBlock(m, len, block_idx, offset) ==
  IF ~Live(m) \/ ~(offset < kEntropyCsrngBitsBufferNumWords) THEN m
  ELSE The({ ReadBlock(StoreWord(r, WordIdx(block_idx, offset), len, r.val),
                       len, block_idx, offset + 1) :
             r \in { abs_mmio_read32(
                       m, Reg(kBaseCsrng, CSRNG_GENBITS_REG_OFFSET)) }})

\* Variant: res follows the latest block.
FipsResLatest(res, fips_check, reg) ==
  IF /\ fips_check # kHardenedBoolFalse
     /\ ~bitfield_bit32_read(reg, CSRNG_GENBITS_VLD_GENBITS_FIPS_BIT)
    THEN OTCRYPTO_RECOV_ERR
    ELSE OTCRYPTO_OK

\* res after the FIPS test of a block whose GENBITS_VLD value is reg.
FipsRes(res, fips_check, reg) ==
  IF /\ fips_check # kHardenedBoolFalse
     /\ ~bitfield_bit32_read(reg, CSRNG_GENBITS_VLD_GENBITS_FIPS_BIT)
    THEN OTCRYPTO_RECOV_ERR
    ELSE res

\* for (block_idx = 0; block_idx < nblocks; ++block_idx) {...} return res;
RECURSIVE DrainBlocks(_, _, _, _, _)
DrainBlocks(m, len, fips_check, block_idx, res) ==
  IF ~Live(m) THEN m
  ELSE IF ~(block_idx < ceil_div(len, 4)) THEN Return(m, res)
  ELSE The({ DrainBlocks(ReadBlock(p, len, block_idx, 0), len, fips_check,
                         block_idx + 1, FipsRes(res, fips_check, p.val)) :
             p \in { PollBit(m, Reg(kBaseCsrng, CSRNG_GENBITS_VLD_REG_OFFSET),
                             CSRNG_GENBITS_VLD_GENBITS_VLD_BIT) }})

entropy_csrng_generate_data_get(m, len, fips_check) ==
  DrainBlocks(m, len, fips_check, 0, OTCRYPTO_OK)

(***************************************************************************)
(* The DRBG commands of the API.  Every one is a command sent to the       *)
(* CSRNG's own command register with check_completion = true.  A field the *)
(* compound literal leaves out is zero.                                    *)
(***************************************************************************)
entropy_csrng_instantiate(m, disable_trng_input, seed_material) ==
  csrng_send_app_cmd(
    m, Reg(kBaseCsrng, CSRNG_CMD_REQ_REG_OFFSET),
    entropy_csrng_cmd(kEntropyDrbgOpInstantiate, disable_trng_input,
                      seed_material, 0),
    TRUE)

entropy_csrng_reseed(m, disable_trng_input, seed_material) ==
  csrng_send_app_cmd(
    m, Reg(kBaseCsrng, CSRNG_CMD_REQ_REG_OFFSET),
    entropy_csrng_cmd(kEntropyDrbgOpReseed, disable_trng_input,
                      seed_material, 0),
    TRUE)

entropy_csrng_update(m, seed_material) ==
  csrng_send_app_cmd(
    m, Reg(kBaseCsrng, CSRNG_CMD_REQ_REG_OFFSET),
    entropy_csrng_cmd(kEntropyDrbgOpUpdate, 0, seed_material, 0),
    TRUE)

\* const uint32_t num_128bit_blocks = ceil_div(len, 4);
\* Variant: the request is rounded down to whole blocks.
entropy_csrng_generate_start_floor(m, seed_material, len) ==
  csrng_send_app_cmd(
    m, Reg(kBaseCsrng, CSRNG_CMD_REQ_REG_OFFSET),
    entropy_csrng_cmd(kEntropyDrbgOpGenerate, 0, seed_material, len \div 4),
    TRUE)

entropy_csrng_generate_start(m, seed_material, len) ==
  csrng_send_app_cmd(
    m, Reg(kBaseCsrng, CSRNG_CMD_REQ_REG_OFFSET),
    entropy_csrng_cmd(kEntropyDrbgOpGenerate, 0, seed_material,
                      ceil_div(len, 4)),
    TRUE)

\* Variant: the data is fetched whatever generate_start returned.
entropy_csrng_generate_unchecked(m, seed_material, len, fips_check) ==
  The({ The({ [d EXCEPT !.ret = IF Live(s) THEN d.ret ELSE s.ret] :
              d \in { entropy_csrng_generate_data_get(
                        [s EXCEPT !.ret = OTCRYPTO_OK], len, fips_check) }}) :
        s \in { entropy_csrng_generate_start(m, seed_material, len) }})

\* HARDENED_TRY(entropy_csrng_generate_start(seed_material, len));
\* return entropy_csrng_generate_data_get(buf, len, fips_check);
entropy_csrng_generate(m, seed_material, len, fips_check) ==
  The({ entropy_csrng_generate_data_get(s, len, fips_check) :
        s \in { entropy_csrng_generate_start(m, seed_material, len) }})

entropy_csrng_uninstantiate(m) ==
  csrng_send_app_cmd(
    m, Reg(kBaseCsrng, CSRNG_CMD_REQ_REG_OFFSET),
    entropy_csrng_cmd(kEntropyDrbgOpUninstantiate, 0, NULL, 0),
    TRUE)

(***************************************************************************)
(* Hardware behaviours.                                                    *)
(***************************************************************************)
Rep(v, n) == [i \in 1..n |-> v]

\* Good answers a CSRNG status register gives before it fails for good.
MaxAnswers == 5

MainSmIdle == U32(kCsrngMainSmIdle)
\* Some state of the CSRNG main state machine other than idle.
MainSmBusy == U32(1)
CsrngCmdRdy == bitfield_bit32_write(Zero32, CSRNG_SW_CMD_STS_CMD_RDY_BIT, TRUE)
CsrngCmdDone ==
  bitfield_bit32_write(Zero32, CSRNG_INTR_STATE_CS_CMD_REQ_DONE_BIT, TRUE)
EdnRdy == bitfield_bit32_write(Zero32, EDN_SW_CMD_STS_CMD_RDY_BIT, TRUE)
EdnErr == bitfield_bit32_write(Zero32, EDN_SW_CMD_STS_CMD_STS_BIT, TRUE)
EdnRdyErr == bitfield_bit32_write(EdnRdy, EDN_SW_CMD_STS_CMD_STS_BIT, TRUE)
GenbitsVld ==
  bitfield_bit32_write(Zero32, CSRNG_GENBITS_VLD_GENBITS_VLD_BIT, TRUE)
GenbitsVldFips ==
  bitfield_bit32_write(GenbitsVld, CSRNG_GENBITS_VLD_GENBITS_FIPS_BIT, TRUE)

MainSmReg == Reg(kBaseCsrng, CSRNG_MAIN_SM_STATE_REG_OFFSET)
CsrngStsReg == Reg(kBaseCsrng, CSRNG_SW_CMD_STS_REG_OFFSET)
EdnStsReg(base) == Reg(base, EDN_SW_CMD_STS_REG_OFFSET)

\* Hardware that is idle, ready and free of errors once it has answered
\* "not yet" d times on each status register.
HwNominal(d) ==
  (MainSmReg :> (Rep(MainSmBusy, d) \o <<MainSmIdle>>))
  @@ (CsrngStsReg :> (Rep(Zero32, d) \o <<CsrngCmdRdy>>))
  @@ (EdnStsReg(kBaseEdn0) :> (Rep(Zero32, d) \o <<EdnRdy>>))
  @@ (EdnStsReg(kBaseEdn1) :> (Rep(Zero32, d) \o <<EdnRdy>>))
  @@ (Reg(kBaseCsrng, CSRNG_INTR_STATE_REG_OFFSET) :>
        (Rep(Zero32, d) \o <<CsrngCmdDone>>))
  @@ (Reg(kBaseCsrng, CSRNG_GENBITS_VLD_REG_OFFSET) :>
        (Rep(Zero32, d) \o <<GenbitsVldFips>>))
  @@ (Reg(kBaseCsrng, CSRNG_GENBITS_REG_OFFSET) :> <<Zero32>>)

IsNominal(hw) == \E d \in 0..MaxPoll : hw = HwNominal(d)

\* Nominal hardware but for one status register, which after a good answers
\* fails for good: the main state machine never idle again, the CSRNG never
\* ready again, an EDN reporting an error, or never ready, or both.
HwFaulty ==
  {[HwNominal(0) EXCEPT ![MainSmReg] = Rep(MainSmIdle, a) \o <<MainSmBusy>>] :
     a \in 0..MaxAnswers}
  \cup {[HwNominal(0) EXCEPT ![CsrngStsReg] = Rep(CsrngCmdRdy, a) \o <<Zero32>>] :
          a \in 0..MaxAnswers}
  \cup {[HwNominal(0) EXCEPT ![EdnStsReg(b)] = Rep(EdnRdy, a) \o <<x>>] :
          b \in {kBaseEdn0, kBaseEdn1}, a \in 0..1,
          x \in {EdnRdyErr, Zero32, EdnErr}}

HwScenarios == {HwNominal(d) : d \in 0..MaxPoll} \cup HwFaulty

(***************************************************************************)
(* The configuration table as found in memory: the table of the source, or *)
(* the table with its identifier or its bypass flag corrupted.             *)
(***************************************************************************)
ConfigImages ==
  {kEntropyComplexConfigs,
   [kEntropyComplexConfigs EXCEPT
      ![kEntropyComplexConfigIdContinuous].id = 1],
   [kEntropyComplexConfigs EXCEPT
      ![kEntropyComplexConfigIdContinuous].entropy_src.bypass_conditioner =
        kMultiBitBool4True]}

(***************************************************************************)
(* The state machine: the firmware calls entropy_complex_init and          *)
(* entropy_complex_check, run to completion, one at a time; between calls  *)
(* a configuration register may lose its value.                            *)
(***************************************************************************)
Machine(hw) == [regs |-> regs, hw |-> hw, trace |-> <<>>, buf |-> buf,
                ret |-> OTCRYPTO_OK, val |-> Zero32]

Call(op, arg, m, hw) ==
  [op |-> op, arg |-> arg, ret |-> m.ret, trace |-> m.trace, hw |-> hw,
   fresh |-> (regs = ResetImage)]

NoCall == [op |-> "none", arg |-> <<>>, ret |-> OTCRYPTO_OK, trace |-> <<>>,
           hw |-> HwNominal(0), fresh |-> TRUE]

Init ==
  /\ regs = ResetImage
  /\ cfg \in ConfigImages
  /\ call = NoCall
  /\ up = "none"
  /\ drift = {}
  /\ buf = <<>>

\* A call that never returns leaves nothing to run after it.
Running == call.ret # HANG

ComplexInit ==
  /\ Running
  /\ \E hw \in HwScenarios :
       \E m \in {entropy_complex_init(Machine(hw), cfg)} :
         /\ regs' = m.regs
         /\ call' = Call("init", <<>>, m, hw)
         /\ up' = m.ret
  /\ drift' = {}
  /\ UNCHANGED <<cfg, buf>>

ComplexCheck ==
  /\ Running
  /\ \E m \in {entropy_complex_check(Machine(HwNominal(0)), cfg)} :
       /\ regs' = m.regs
       /\ call' = Call("check", <<>>, m, HwNominal(0))
  /\ UNCHANGED <<cfg, up, drift, buf>>

\* One configuration register is cleared behind the driver's back, after a
\* bring-up that succeeded.
RegisterDrift ==
  /\ call.op = "init"
  /\ call.ret = OTCRYPTO_OK
  /\ drift = {}
  /\ \E a \in ConfigRegs :
       /\ regs' = [regs EXCEPT ![a] = Zero32]
       /\ drift' = {a}
       /\ call' = [NoCall EXCEPT !.op = "drift", !.arg = a, !.fresh = FALSE]
  /\ UNCHANGED <<cfg, up, buf>>

Next == ComplexInit \/ ComplexCheck \/ RegisterDrift

Spec == Init /\ [][Next]_vars

(***************************************************************************)
(* entropy_csrng_generate_data_get on its own: the request (len and        *)
(* fips_check) and the answers of the CSRNG are drawn at the start, and    *)
(* the call runs to completion on them.                                    *)
(***************************************************************************)
\* Longest run of answers a GENBITS_VLD script spells out.
MaxScript == 3

\* The output buffer is as long as the longest request rounded up to whole
\* blocks, so that a store past len would land in it.
BufWords == kEntropyCsrngBitsBufferNumWords
              * ceil_div(MaxLen, kEntropyCsrngBitsBufferNumWords)

\* A buffer no word of which has been written.
EmptyBuffer == [i \in 1..BufWords |-> Zero32]

\* GENBITS returns the words 1, 2, 3, ... in the order they are read.
GenbitsWords == [k \in 1..BufWords |-> U32(k)]

\* What GENBITS_VLD answers, read after read: not valid, valid, or valid and
\* FIPS-compatible.
VldScripts ==
  UNION {[1..n -> {Zero32, GenbitsVld, GenbitsVldFips}] : n \in 1..MaxScript}

GenHw(script) ==
  [HwNominal(0) EXCEPT
     ![Reg(kBaseCsrng, CSRNG_GENBITS_VLD_REG_OFFSET)] = script,
     ![Reg(kBaseCsrng, CSRNG_GENBITS_REG_OFFSET)] = GenbitsWords]

\* hardened_bool_t as a caller may pass it: the two encodings and a value
\* that is neither.
HardenedBools == {kHardenedBoolTrue, kHardenedBoolFalse, 0}

InitGen ==
  /\ regs = ResetImage
  /\ cfg = kEntropyComplexConfigs
  /\ up = "none"
  /\ drift = {}
  /\ buf = EmptyBuffer
  /\ \E len \in 0..MaxLen, fips_check \in HardenedBools, script \in VldScripts :
       call = [NoCall EXCEPT !.op = "request",
                             !.arg = [len |-> len, fips_check |-> fips_check],
                             !.hw = GenHw(script)]

GenerateDataGet ==
  /\ call.op = "request"
  /\ \E m \in {entropy_csrng_generate_data_get(Machine(call.hw), call.arg.len,
                                               call.arg.fips_check)} :
       /\ buf' = m.buf
       /\ call' = Call("data_get", call.arg, m, call.hw)
  /\ UNCHANGED <<regs, cfg, up, drift>>

NextGen == GenerateDataGet

SpecGen == InitGen /\ [][NextGen]_vars

(***************************************************************************)
(* The DRBG commands.  After the complex has been brought up the firmware  *)
(* sends commands to the CSRNG, each call run to completion on the answers *)
(* the hardware gives during it; it may also check the complex.            *)
(***************************************************************************)
\* Longest seed material a caller hands in, in words.
MaxSeedLen == 17

\* Lengths around the 4-bit length field of the command header.
SeedLens == {0, 2} \cup (kAppCmdFieldCmdLen.mask[2]..MaxSeedLen)

SeedWords(n) == [i \in 1..n |-> W(1, i)]

\* Seed material: none, word-aligned material of every length, and material
\* whose data is not word-aligned.
SeedMaterials ==
  {NULL}
  \cup {SeedMaterial(SeedWords(n), 0) : n \in SeedLens}
  \cup {SeedMaterial(SeedWords(2), a) : a \in {1, 2}}

\* Request lengths, in words, around the largest generate length.
LensAtCap ==
  {4 * kMaxGenerateSizeIn128BitBlocks + d : d \in {-3, 0, 1, 4, 5}}

StartLens == {0, 1, 4, 5} \cup LensAtCap

\* A request for more than the CSRNG accepts, and requests short enough to
\* drain.
GenerateLens ==
  {0, 1, 4, 5, MaxLen} \cup {4 * kMaxGenerateSizeIn128BitBlocks + 1}

CsrngCmdRdyErr ==
  bitfield_bit32_write(CsrngCmdRdy, CSRNG_SW_CMD_STS_CMD_STS_BIT, TRUE)

\* The hardware during a command: nominal, or with the main state machine
\* never idle, the CSRNG never ready, the command ending in an error
\* status, the command never done, or the generated bits never valid or
\* not FIPS-compatible.
CmdHwBase(d) ==
  [HwNominal(d) EXCEPT
     ![Reg(kBaseCsrng, CSRNG_GENBITS_REG_OFFSET)] = GenbitsWords]

\* Idle and ready hardware whose CSRNG keeps count of the words it owes and
\* starts owing none.
CmdHwCounting == CmdHwBase(0) @@ (CsrngFifo :> << <<0, 0, 0>> >>)

CmdHwScenarios ==
  {CmdHwBase(d) : d \in 0..MaxPoll}
  \cup {[CmdHwBase(0) EXCEPT ![MainSmReg] = <<MainSmBusy>>],
        [CmdHwBase(0) EXCEPT ![CsrngStsReg] = <<Zero32>>],
        [CmdHwBase(0) EXCEPT ![CsrngStsReg] = <<CsrngCmdRdy, CsrngCmdRdyErr>>],
        [CmdHwBase(0) EXCEPT ![CsrngStsReg] = <<CsrngCmdRdyErr>>],
        [CmdHwBase(0) EXCEPT
           ![Reg(kBaseCsrng, CSRNG_INTR_STATE_REG_OFFSET)] = <<Zero32>>],
        [CmdHwBase(0) EXCEPT
           ![Reg(kBaseCsrng, CSRNG_GENBITS_VLD_REG_OFFSET)] = <<Zero32>>],
        [CmdHwBase(0) EXCEPT
           ![Reg(kBaseCsrng, CSRNG_GENBITS_VLD_REG_OFFSET)] =
             <<GenbitsVld, GenbitsVld, GenbitsVldFips>>],
        CmdHwCounting}

\* The table of the source, or the table with a bypass flag that is neither
\* of the two encodings.
CmdConfigImages ==
  {kEntropyComplexConfigs,
   [kEntropyComplexConfigs EXCEPT
      ![kEntropyComplexConfigIdContinuous].entropy_src.bypass_conditioner = 0]}

CmdArg(disable_trng_input, seed_material, len, fips_check) ==
  [disable_trng_input |-> disable_trng_input, seed_material |-> seed_material,
   len |-> len, fips_check |-> fips_check]

InitCmd ==
  /\ regs = ResetImage
  /\ cfg \in CmdConfigImages
  /\ call = NoCall
  /\ up = "none"
  /\ drift = {}
  /\ buf = EmptyBuffer

\* A command is sent once the complex has been brought up.  No command reads
\* what an earlier one left behind, so one command per bring-up shows them
\* all.
Ready == call.op = "init" /\ call.ret = OTCRYPTO_OK

BootInit == call.op = "none" /\ ComplexInit

Instantiate ==
  /\ Ready
  /\ \E hw \in CmdHwScenarios, d \in HardenedBools, s \in SeedMaterials :
       \E m \in {entropy_csrng_instantiate(Machine(hw), d, s)} :
         call' = Call("instantiate", CmdArg(d, s, 0, 0), m, hw)
  /\ UNCHANGED <<regs, cfg, up, drift, buf>>

Reseed ==
  /\ Ready
  /\ \E hw \in CmdHwScenarios, d \in HardenedBools, s \in SeedMaterials :
       \E m \in {entropy_csrng_reseed(Machine(hw), d, s)} :
         call' = Call("reseed", CmdArg(d, s, 0, 0), m, hw)
  /\ UNCHANGED <<regs, cfg, up, drift, buf>>

Update ==
  /\ Ready
  /\ \E hw \in CmdHwScenarios, s \in SeedMaterials :
       \E m \in {entropy_csrng_update(Machine(hw), s)} :
         call' = Call("update", CmdArg(0, s, 0, 0), m, hw)
  /\ UNCHANGED <<regs, cfg, up, drift, buf>>

GenerateStart ==
  /\ Ready
  /\ \E hw \in CmdHwScenarios, s \in SeedMaterials, len \in StartLens :
       \E m \in {entropy_csrng_generate_start(Machine(hw), s, len)} :
         call' = Call("generate_start", CmdArg(0, s, len, 0), m, hw)
  /\ UNCHANGED <<regs, cfg, up, drift, buf>>

\* The caller passes a buffer it has zeroed.
Generate ==
  /\ Ready
  /\ \E hw \in CmdHwScenarios, s \in SeedMaterials, len \in GenerateLens,
        f \in HardenedBools :
       \E m \in {entropy_csrng_generate(
                   [Machine(hw) EXCEPT !.buf = EmptyBuffer], s, len, f)} :
         /\ buf' = m.buf
         /\ call' = Call("generate", CmdArg(0, s, len, f), m, hw)
  /\ UNCHANGED <<regs, cfg, up, drift>>

Uninstantiate ==
  /\ Ready
  /\ \E hw \in CmdHwScenarios :
       \E m \in {entropy_csrng_uninstantiate(Machine(hw))} :
         call' = Call("uninstantiate", CmdArg(0, NULL, 0, 0), m, hw)
  /\ UNCHANGED <<regs, cfg, up, drift, buf>>

NextCmd ==
  \/ BootInit
  \/ ComplexCheck
  \/ RegisterDrift
  \/ Instantiate
  \/ Reseed
  \/ Update
  \/ GenerateStart
  \/ Generate
  \/ Uninstantiate

SpecCmd == InitCmd /\ [][NextCmd]_vars

(***************************************************************************)
(* The entropy source driver on its own: entropy_src_configure,            *)
(* entropy_src_check and entropy_src_stop, each run to completion, on an   *)
(* entry whose entropy source settings are drawn at the start.             *)
(***************************************************************************)
EsFlagValues == {kMultiBitBool4True, kMultiBitBool4False, 0}

\* The thresholds of the table, and nine thresholds that all differ.
EsThresholdImages ==
  {kEntropyComplexConfigs[kEntropyComplexConfigIdContinuous].entropy_src,
   [kEntropyComplexConfigs[kEntropyComplexConfigIdContinuous].entropy_src
      EXCEPT !.repcnt_threshold = 1, !.repcnts_threshold = 2,
             !.adaptp_hi_threshold = 3, !.adaptp_lo_threshold = 4,
             !.bucket_threshold = 5, !.markov_hi_threshold = 6,
             !.markov_lo_threshold = 7, !.extht_hi_threshold = 8,
             !.extht_lo_threshold = 9]}

EsConfigs ==
  {[t EXCEPT !.bypass_conditioner = b, !.single_bit_mode = s,
             !.fips_enable = f, !.route_to_firmware = r,
             !.fips_test_window_size = w, !.alert_threshold = a] :
     t \in EsThresholdImages, b \in EsFlagValues, s \in EsFlagValues,
     f \in {kMultiBitBool4True, kMultiBitBool4False},
     r \in {kMultiBitBool4False, kMultiBitBool4True},
     w \in {\h200, \hffff}, a \in {2, \hffff}}

InitEs ==
  /\ regs = ResetImage
  /\ cfg \in {[kEntropyComplexConfigs EXCEPT
                 ![kEntropyComplexConfigIdContinuous].entropy_src = c] :
              c \in EsConfigs}
  /\ call = NoCall
  /\ up = "none"
  /\ drift = {}
  /\ buf = <<>>

EsConfigure ==
  /\ call.op \in {"none", "es_stop"}
  /\ \E m \in {entropy_src_configure(
                 Machine(HwNominal(0)),
                 cfg[kEntropyComplexConfigIdContinuous].entropy_src)} :
       /\ regs' = m.regs
       /\ call' = Call("es_configure", <<>>, m, HwNominal(0))
  /\ UNCHANGED <<cfg, up, drift, buf>>

EsCheck ==
  /\ call.op = "es_configure"
  /\ \E m \in {entropy_src_check(
                 Machine(HwNominal(0)),
                 cfg[kEntropyComplexConfigIdContinuous].entropy_src)} :
       /\ regs' = m.regs
       /\ call' = Call("es_check", <<>>, m, HwNominal(0))
  /\ UNCHANGED <<cfg, up, drift, buf>>

EsStop ==
  /\ call.op \in {"es_configure", "es_check"}
  /\ \E m \in {entropy_src_stop(Machine(HwNominal(0)))} :
       /\ regs' = m.regs
       /\ call' = Call("es_stop", <<>>, m, HwNominal(0))
  /\ UNCHANGED <<cfg, up, drift, buf>>

NextEs == EsConfigure \/ EsCheck \/ EsStop

SpecEs == InitEs /\ [][NextEs]_vars

(***************************************************************************)
(* Properties of entropy_complex_init and entropy_complex_check (Spec).    *)
(***************************************************************************)
EsReg(offset) == Reg(kBaseEntropySrc, offset)
ThresholdReg(name) == EsReg(ENTROPY_SRC_THRESHOLDS_REG_OFFSET(name))

\* C1: entropy_complex_check called right after an entropy_complex_init
\* that returned OK returns OK too (the table is the Continuous entry and
\* the registers read back what init wrote).
C1_CheckAfterInit ==
  [][(call.op = "init" /\ call.ret = OTCRYPTO_OK /\ call'.op = "check")
       => call'.ret = OTCRYPTO_OK]_vars

C1_Witness ==
  /\ call.op = "check"
  /\ call.ret = OTCRYPTO_OK
  /\ up = OTCRYPTO_OK
  /\ drift = {}

\* C2: from the reset image, with hardware that reports idle and ready and
\* no error, entropy_complex_init returns OK and leaves the entropy source
\* enabled, the CSRNG enabled and both EDNs enabled in auto-request mode.
C2_InitFromReset ==
  (/\ call.op = "init"
   /\ call.fresh
   /\ IsNominal(call.hw)
   /\ cfg = kEntropyComplexConfigs)
  => /\ call.ret = OTCRYPTO_OK
     /\ regs[EsReg(ENTROPY_SRC_MODULE_ENABLE_REG_OFFSET)]
          = U32(kMultiBitBool4True)
     /\ bitfield_field32_read(regs[Reg(kBaseCsrng, CSRNG_CTRL_REG_OFFSET)],
                              CSRNG_CTRL_ENABLE_FIELD)
          = U32(kMultiBitBool4True)
     /\ \A edn \in {kBaseEdn0, kBaseEdn1} :
          /\ bitfield_field32_read(regs[Reg(edn, EDN_CTRL_REG_OFFSET)],
                                   EDN_CTRL_EDN_ENABLE_FIELD)
               = U32(kMultiBitBool4True)
          /\ bitfield_field32_read(regs[Reg(edn, EDN_CTRL_REG_OFFSET)],
                                   EDN_CTRL_AUTO_REQ_MODE_FIELD)
               = U32(kMultiBitBool4True)

C2_Witness ==
  /\ call.op = "init"
  /\ call.fresh
  /\ call.hw = HwNominal(MaxPoll)
  /\ call.ret = OTCRYPTO_OK

\* The accesses of the teardown: each EDN's CTRL is read, written with the
\* command FIFO reset set, then written to its reset value; CSRNG's CTRL is
\* reset; the five registers of the entropy source are reset.
EdnStopTrace(t, i, edn) ==
  /\ t[i] = Access("r", Reg(edn, EDN_CTRL_REG_OFFSET), t[i].val, 1)
  /\ t[i + 1] = Access("w", Reg(edn, EDN_CTRL_REG_OFFSET),
                       bitfield_field32_write(t[i].val,
                                              EDN_CTRL_CMD_FIFO_RST_FIELD,
                                              U32(kMultiBitBool4True)), 1)
  /\ t[i + 2] = Access("w", Reg(edn, EDN_CTRL_REG_OFFSET),
                       EDN_CTRL_REG_RESVAL, 1)

TeardownLen == 3 + 3 + 1 + 5

TeardownTrace(t) ==
  /\ Len(t) >= TeardownLen
  /\ EdnStopTrace(t, 1, kBaseEdn0)
  /\ EdnStopTrace(t, 4, kBaseEdn1)
  /\ t[7] = Access("w", Reg(kBaseCsrng, CSRNG_CTRL_REG_OFFSET),
                   CSRNG_CTRL_REG_RESVAL, 1)
  /\ t[8] = Access("w", EsReg(ENTROPY_SRC_MODULE_ENABLE_REG_OFFSET),
                   ENTROPY_SRC_MODULE_ENABLE_REG_RESVAL, 1)
  /\ t[9] = Access("w", EsReg(ENTROPY_SRC_ENTROPY_CONTROL_REG_OFFSET),
                   ENTROPY_SRC_ENTROPY_CONTROL_REG_RESVAL, 1)
  /\ t[10] = Access("w", EsReg(ENTROPY_SRC_CONF_REG_OFFSET),
                    ENTROPY_SRC_CONF_REG_RESVAL, 1)
  /\ t[11] = Access("w", EsReg(ENTROPY_SRC_HEALTH_TEST_WINDOWS_REG_OFFSET),
                    ENTROPY_SRC_HEALTH_TEST_WINDOWS_REG_RESVAL, 1)
  /\ t[12] = Access("w", EsReg(ENTROPY_SRC_ALERT_THRESHOLD_REG_OFFSET),
                    ENTROPY_SRC_ALERT_THRESHOLD_REG_RESVAL, 1)

\* C3: every entropy_complex_init, whatever the registers held and
\* whatever it returns, begins with the teardown in the order EDN0, EDN1,
\* CSRNG CTRL, entropy source; no other access comes before its end.
C3_TeardownFirst == call.op = "init" => TeardownTrace(call.trace)

C3_Witness ==
  /\ call.op = "init"
  /\ ~call.fresh
  /\ call.ret = OTCRYPTO_RECOV_ERR
  /\ Len(call.trace) > TeardownLen

\* The bring-up step a register belongs to: 1 the entropy source, 2 the
\* CSRNG enable, 3 EDN0, 4 EDN1; 0 for the status registers of the CSRNG,
\* which every step that sends a command reads.
BringUpStep(addr) ==
  IF addr[1] = kBaseEntropySrc THEN 1
  ELSE IF addr = Reg(kBaseCsrng, CSRNG_CTRL_REG_OFFSET) THEN 2
  ELSE IF addr[1] = kBaseEdn0 THEN 3
  ELSE IF addr[1] = kBaseEdn1 THEN 4
  ELSE 0

IsEdnStatus(e) ==
  /\ e.op = "r"
  /\ e.addr[1] \in {kBaseEdn0, kBaseEdn1}
  /\ e.addr[2] = EDN_SW_CMD_STS_REG_OFFSET

\* An access that shows its step to fail: the idle wait running out of
\* tries, or an EDN that is ready with its error status set.
ShowsFailure(e) ==
  \/ /\ e.op = "r"
     /\ e.addr = Reg(kBaseCsrng, CSRNG_MAIN_SM_STATE_REG_OFFSET)
     /\ e.val # U32(kCsrngMainSmIdle)
     /\ e.n > 1
  \/ /\ IsEdnStatus(e)
     /\ bitfield_bit32_read(e.val, EDN_SW_CMD_STS_CMD_RDY_BIT)
     /\ bitfield_bit32_read(e.val, EDN_SW_CMD_STS_CMD_STS_BIT)

\* A poll that has not seen its ready bit.
ShowsNotReady(e) ==
  \/ /\ e.op = "r"
     /\ e.addr = Reg(kBaseCsrng, CSRNG_SW_CMD_STS_REG_OFFSET)
     /\ ~bitfield_bit32_read(e.val, CSRNG_SW_CMD_STS_CMD_RDY_BIT)
  \/ /\ IsEdnStatus(e)
     /\ ~bitfield_bit32_read(e.val, EDN_SW_CMD_STS_CMD_RDY_BIT)

BringUpInOrder(t) ==
  \A i, j \in (TeardownLen + 1)..Len(t) :
    (i < j /\ BringUpStep(t[i].addr) > 0 /\ BringUpStep(t[j].addr) > 0)
      => BringUpStep(t[i].addr) <= BringUpStep(t[j].addr)

BringUpFailFast(t, ret, config) ==
  /\ \A i \in 1..(Len(t) - 1) : ~ShowsFailure(t[i])
  /\ config.id # kEntropyComplexConfigIdContinuous
       => ret = OTCRYPTO_RECOV_ERR /\ Len(t) = TeardownLen
  /\ (/\ config.id = kEntropyComplexConfigIdContinuous
      /\ config.entropy_src.bypass_conditioner # kMultiBitBool4False)
       => ret = OTCRYPTO_BAD_ARGS /\ Len(t) = TeardownLen
  /\ (ret = OTCRYPTO_RECOV_ERR /\ Len(t) > TeardownLen)
       => ShowsFailure(t[Len(t)])
  /\ ret = HANG => ShowsNotReady(t[Len(t)])
  /\ ret = OTCRYPTO_OK
       => /\ t[Len(t)].addr = Reg(kBaseEdn1, EDN_SW_CMD_STS_REG_OFFSET)
          /\ ~ShowsFailure(t[Len(t)])
          /\ ~ShowsNotReady(t[Len(t)])
  /\ (\E i \in 1..Len(t) : ShowsFailure(t[i]) /\ t[i].addr[1] = kBaseEdn0)
       => \A j \in (TeardownLen + 1)..Len(t) : t[j].addr[1] # kBaseEdn1

\* C4: after the teardown the bring-up runs in the order identity check,
\* entropy source, CSRNG enable, EDN0, EDN1; the step that fails ends the
\* call with its error and no later step touches a register.
C4_BringUpOrder ==
  call.op = "init"
    => /\ BringUpInOrder(call.trace)
       /\ BringUpFailFast(call.trace, call.ret,
                          cfg[kEntropyComplexConfigIdContinuous])

C4_Witness ==
  /\ call.op = "init"
  /\ call.ret = OTCRYPTO_RECOV_ERR
  /\ ShowsFailure(call.trace[Len(call.trace)])
  /\ call.trace[Len(call.trace)].addr[1] = kBaseEdn0

\* The registers entropy_complex_check reads, in the order it reads them.
CheckReads ==
  << EsReg(ENTROPY_SRC_MODULE_ENABLE_REG_OFFSET),
     EsReg(ENTROPY_SRC_CONF_REG_OFFSET),
     EsReg(ENTROPY_SRC_ENTROPY_CONTROL_REG_OFFSET),
     EsReg(ENTROPY_SRC_HEALTH_TEST_WINDOWS_REG_OFFSET),
     EsReg(ENTROPY_SRC_ALERT_THRESHOLD_REG_OFFSET),
     ThresholdReg("REPCNT"), ThresholdReg("REPCNTS"),
     ThresholdReg("ADAPTP_HI"), ThresholdReg("ADAPTP_LO"),
     ThresholdReg("BUCKET"), ThresholdReg("MARKOV_HI"),
     ThresholdReg("MARKOV_LO"), ThresholdReg("EXTHT_HI"),
     ThresholdReg("EXTHT_LO"),
     Reg(kBaseCsrng, CSRNG_CTRL_REG_OFFSET),
     Reg(kBaseEdn0, EDN_CTRL_REG_OFFSET),
     Reg(kBaseEdn1, EDN_CTRL_REG_OFFSET) >>

\* The thresholds of the Continuous entry: none on the low side.
LowThresholds ==
  {ThresholdReg("ADAPTP_LO"), ThresholdReg("MARKOV_LO"),
   ThresholdReg("EXTHT_LO")}

HighThresholds ==
  {ThresholdReg("REPCNT"), ThresholdReg("REPCNTS"), ThresholdReg("ADAPTP_HI"),
   ThresholdReg("BUCKET"), ThresholdReg("MARKOV_HI"), ThresholdReg("EXTHT_HI")}

Nibble(word, n) == (word[2] \div (16 ^ n)) % 16

\* The value read from addr is the one the Continuous entry asks for.
ReadPasses(addr, word) ==
  IF addr = EsReg(ENTROPY_SRC_MODULE_ENABLE_REG_OFFSET)
    THEN word = <<0, kMultiBitBool4True>>
  ELSE IF addr = EsReg(ENTROPY_SRC_CONF_REG_OFFSET)
    THEN /\ Nibble(word, 0) = kMultiBitBool4True
         /\ (word[1] \div 16) % 16 = kMultiBitBool4False
  ELSE IF addr = EsReg(ENTROPY_SRC_ENTROPY_CONTROL_REG_OFFSET)
    THEN /\ Nibble(word, 0) = kMultiBitBool4False
         /\ Nibble(word, 1) = kMultiBitBool4False
  ELSE IF addr = EsReg(ENTROPY_SRC_HEALTH_TEST_WINDOWS_REG_OFFSET)
    THEN word[2] = 512
  ELSE IF addr = EsReg(ENTROPY_SRC_ALERT_THRESHOLD_REG_OFFSET)
    THEN word = <<65533, 2>>
  ELSE IF addr \in HighThresholds THEN word[2] = 65535
  ELSE IF addr \in LowThresholds THEN word[2] = 0
  ELSE IF addr = Reg(kBaseCsrng, CSRNG_CTRL_REG_OFFSET)
    THEN Nibble(word, 0) = kMultiBitBool4True
  ELSE /\ Nibble(word, 0) = kMultiBitBool4True
       /\ Nibble(word, 2) = kMultiBitBool4True

CheckInOrder(t, ret, config) ==
  /\ Len(t) <= Len(CheckReads)
  /\ \A i \in 1..Len(t) :
       /\ t[i] = Access("r", CheckReads[i], t[i].val, 1)
       /\ i < Len(t) => ReadPasses(t[i].addr, t[i].val)
  /\ ret = OTCRYPTO_OK
       <=> /\ Len(t) = Len(CheckReads)
           /\ ReadPasses(t[Len(t)].addr, t[Len(t)].val)
  /\ (Len(t) > 0 /\ ret # OTCRYPTO_OK)
       => /\ ret = OTCRYPTO_RECOV_ERR
          /\ ~ReadPasses(t[Len(t)].addr, t[Len(t)].val)
  /\ Len(t) = 0
       => \/ /\ config.id # kEntropyComplexConfigIdContinuous
             /\ ret = OTCRYPTO_RECOV_ERR
          \/ /\ config.id = kEntropyComplexConfigIdContinuous
             /\ config.entropy_src.bypass_conditioner # kMultiBitBool4False
             /\ ret = OTCRYPTO_BAD_ARGS

\* C5: entropy_complex_check validates the identity of the entry, then
\* checks the entropy source, the CSRNG, EDN0 and EDN1 in that order; it
\* returns the error of the first check that fails and reads no register
\* after it.
C5_CheckOrder ==
  call.op = "check"
    => CheckInOrder(call.trace, call.ret,
                    cfg[kEntropyComplexConfigIdContinuous])

C5_Witness ==
  /\ call.op = "check"
  /\ call.ret = OTCRYPTO_RECOV_ERR
  /\ Len(call.trace) = 15
  /\ drift = {Reg(kBaseCsrng, CSRNG_CTRL_REG_OFFSET)}

\* C6: entropy_complex_check writes no register, whether it succeeds or
\* fails: the registers after the call are the registers before it.
C6_CheckReadOnly ==
  [][call'.op = "check"
       => /\ regs' = regs
          /\ \A i \in 1..Len(call'.trace) : call'.trace[i].op = "r"]_vars

C6_Witness ==
  /\ call.op = "check"
  /\ call.ret = OTCRYPTO_RECOV_ERR
  /\ Len(call.trace) = Len(CheckReads)

\* A check that follows a bring-up that returned OK and the loss of the
\* value of exactly the register a.
CheckAfterClearing(a) ==
  /\ call.op = "check"
  /\ up = OTCRYPTO_OK
  /\ drift = {a}

\* C7 as stated: whichever of the nine threshold registers is cleared
\* after a successful bring-up, entropy_complex_check returns
\* RecoverableError.
C7_AnyThresholdCleared ==
  \A a \in HighThresholds \cup LowThresholds :
    CheckAfterClearing(a) => call.ret = OTCRYPTO_RECOV_ERR

\* C7 amended: clearing one of the six thresholds the entry sets above zero
\* makes entropy_complex_check return RecoverableError; clearing one of the
\* three it sets to zero leaves the check returning OK.
C7_NonZeroThresholdCleared ==
  /\ \A a \in HighThresholds :
       CheckAfterClearing(a) => call.ret = OTCRYPTO_RECOV_ERR
  /\ \A a \in LowThresholds :
       CheckAfterClearing(a) => call.ret = OTCRYPTO_OK

C7_Witness ==
  /\ CheckAfterClearing(ThresholdReg("BUCKET"))
  /\ call.ret = OTCRYPTO_RECOV_ERR

(***************************************************************************)
(* Properties of entropy_csrng_generate_data_get (SpecGen).                *)
(***************************************************************************)
\* The call has returned.
DataGetReturned == call.op = "data_get" /\ call.ret # HANG

IsStore(e) == e.op = "b"

IsGenbitsRead(e) ==
  e.op = "r" /\ e.addr = Reg(kBaseCsrng, CSRNG_GENBITS_REG_OFFSET)

\* A GENBITS_VLD read that found a block valid but not FIPS-compatible.
IsNonFipsBlock(e) ==
  /\ e.op = "r"
  /\ e.addr = Reg(kBaseCsrng, CSRNG_GENBITS_VLD_REG_OFFSET)
  /\ e.val = <<0, 1>>

Stores(t) == SelectSeq(t, IsStore)
GenbitsReads(t) == SelectSeq(t, IsGenbitsRead)

StoredIndices(t) == {Stores(t)[i].addr[2] : i \in 1..Len(Stores(t))}

\* C8: for a len that is not a multiple of 4 the call stores to exactly the
\* indices 0..len-1, once each and to none from len on, and reads
\* ceil(len/4)*4 words from GENBITS.
C8_PartialBlock ==
  (DataGetReturned /\ call.arg.len % 4 # 0)
    => /\ Len(Stores(call.trace)) = call.arg.len
       /\ StoredIndices(call.trace) = 0..(call.arg.len - 1)
       /\ \A i \in (call.arg.len + 1)..Len(buf) : buf[i] = Zero32
       /\ Len(GenbitsReads(call.trace)) = ((call.arg.len + 3) \div 4) * 4

C8_Witness ==
  /\ DataGetReturned
  /\ call.arg.len = 5
  /\ Len(GenbitsReads(call.trace)) = 8

\* C9: the j-th word read of block k ends at index 4k+3-j of the buffer,
\* when that index is below len.  (The n-th word GENBITS returns is n.)
C9_WordOrder ==
  DataGetReturned
    => \A k \in 0..(call.arg.len \div 4), j \in 0..3 :
         (4 * k + j < Len(GenbitsReads(call.trace))
          /\ 4 * k + 3 - j < call.arg.len)
           => /\ GenbitsReads(call.trace)[4 * k + j + 1].val
                   = <<0, 4 * k + j + 1>>
              /\ buf[4 * k + 3 - j + 1] = <<0, 4 * k + j + 1>>

C9_Witness ==
  /\ DataGetReturned
  /\ call.arg.len = 7
  /\ buf[5] = <<0, 8>>
  /\ buf[1] = <<0, 4>>

\* C10: when the FIPS check is asked for (fips_check is anything but
\* kHardenedBoolFalse) and some block drained is not FIPS-compatible, the
\* call returns RecoverableError, after it has read every block in full
\* and stored all len words; a later compatible block does not undo it.
C10_FipsDeferred ==
  (/\ DataGetReturned
   /\ call.arg.fips_check # kHardenedBoolFalse
   /\ \E i \in 1..Len(call.trace) : IsNonFipsBlock(call.trace[i]))
    => /\ call.ret = OTCRYPTO_RECOV_ERR
       /\ Len(GenbitsReads(call.trace)) = ((call.arg.len + 3) \div 4) * 4
       /\ Len(Stores(call.trace)) = call.arg.len
       /\ \A i \in 1..call.arg.len : buf[i] # Zero32

C10_Witness ==
  /\ DataGetReturned
  /\ call.arg.fips_check = kHardenedBoolTrue
  /\ call.arg.len = 8
  /\ call.hw[Reg(kBaseCsrng, CSRNG_GENBITS_VLD_REG_OFFSET)]
       = <<GenbitsVld, GenbitsVldFips>>
  /\ call.ret = OTCRYPTO_RECOV_ERR

(***************************************************************************)
(* Properties of the DRBG commands (SpecCmd).                              *)
(***************************************************************************)
\* The call has returned.
Returned == call.ret # HANG

NoWrite(t) == \A i \in 1..Len(t) : t[i].op # "w"

\* The generate length of a request for len words, in 128-bit blocks.
Blocks(len) == (len + 3) \div 4

\* A call of one of the three functions with seed material of more than 15
\* words.
LongSeedCall ==
  /\ call.op \in {"generate_start", "instantiate", "reseed"}
  /\ call.arg.seed_material.len > 15

\* C11 as stated: with seed material of more than 15 words,
\* entropy_csrng_generate_start (for every len), entropy_csrng_instantiate
\* and entropy_csrng_reseed return RecoverableError and write no register.
C11_LongSeedRejected ==
  LongSeedCall
    => /\ NoWrite(call.trace)
       /\ Returned => call.ret = OTCRYPTO_RECOV_ERR

\* C11 amended: with seed material of more than 15 words no register is
\* written; instantiate, reseed, and generate_start for a len of at most
\* 0x800 blocks return RecoverableError; generate_start for a longer len
\* returns OutOfRange, the length being checked first.
C11_LongSeedRejectedWithinCap ==
  LongSeedCall
    => /\ NoWrite(call.trace)
       /\ (Returned /\ Blocks(call.arg.len) <= \h800)
            => call.ret = OTCRYPTO_RECOV_ERR
       /\ Blocks(call.arg.len) > \h800 => call.ret = OUT_OF_RANGE

C11_Witness ==
  /\ LongSeedCall
  /\ call.op = "generate_start"
  /\ call.arg.len = 5
  /\ call.ret = OTCRYPTO_RECOV_ERR
  /\ Len(call.trace) = 2

\* A call that asks the CSRNG to generate len words.
GenerateCall == call.op \in {"generate_start", "generate"}

\* C12: a generate length of more than 0x800 blocks makes the call return
\* OutOfRange with no register written (none is even read); a length of
\* exactly 0x800 blocks is not turned away by this check.
C12_GenerateLenCap ==
  GenerateCall
    => /\ Blocks(call.arg.len) > \h800
            => call.ret = OUT_OF_RANGE /\ call.trace = <<>>
       /\ Blocks(call.arg.len) <= \h800 => call.ret # OUT_OF_RANGE

C12_Witness ==
  /\ call.op = "generate_start"
  /\ Blocks(call.arg.len) = \h800 + 1
  /\ call.arg.seed_material = NULL
  /\ call.ret = OUT_OF_RANGE

\* The largest length is accepted: its header goes out.
C12_AtCap ==
  /\ call.op = "generate_start"
  /\ Blocks(call.arg.len) = \h800
  /\ call.ret = OTCRYPTO_OK

IsGenbitsVldRead(e) ==
  e.op = "r" /\ e.addr = Reg(kBaseCsrng, CSRNG_GENBITS_VLD_REG_OFFSET)

\* What entropy_csrng_generate_start does, and returns, for the request of
\* the call.
StartOf(c) ==
  entropy_csrng_generate_start(
    [regs |-> regs, hw |-> c.hw, trace |-> <<>>, buf |-> EmptyBuffer,
     ret |-> OTCRYPTO_OK, val |-> Zero32],
    c.arg.seed_material, c.arg.len)

\* C13: entropy_csrng_generate is generate_start followed by
\* generate_data_get; when generate_start returns an error, generate returns
\* that error, its accesses are those of generate_start alone, with no read
\* of GENBITS or GENBITS_VLD, and the caller's buffer is as it was passed.
\* (A generate_start that never returns, the generated bits never becoming
\* valid, has returned no error; generate then never returns either.)
\* When generate_start returns OK its accesses come first and the data is
\* fetched after them.
C13_GenerateComposition ==
  call.op = "generate"
    => /\ SubSeq(call.trace, 1, Len(StartOf(call).trace))
            = StartOf(call).trace
       /\ StartOf(call).ret = HANG
            => call.ret = HANG /\ call.trace = StartOf(call).trace
       /\ StartOf(call).ret \notin {OTCRYPTO_OK, HANG}
            => /\ call.ret = StartOf(call).ret
               /\ call.trace = StartOf(call).trace
               /\ buf = EmptyBuffer
               /\ \A i \in 1..Len(call.trace) :
                    /\ ~IsGenbitsRead(call.trace[i])
                    /\ ~IsGenbitsVldRead(call.trace[i])
                    /\ ~IsStore(call.trace[i])
       /\ (StartOf(call).ret = OTCRYPTO_OK /\ Returned)
            => /\ Len(GenbitsReads(call.trace)) = 4 * Blocks(call.arg.len)
               /\ Len(Stores(call.trace)) = call.arg.len

C13_Witness ==
  /\ call.op = "generate"
  /\ call.arg.len = 5
  /\ call.arg.seed_material # NULL
  /\ call.arg.seed_material.misalign # 0
  /\ call.ret = OTCRYPTO_RECOV_ERR
  /\ buf = EmptyBuffer

\* A call that sends one command to the CSRNG's own command register.
DirectCommands ==
  {"instantiate", "reseed", "update", "generate_start", "generate",
   "uninstantiate"}

IsMainSmRead(e) ==
  e.op = "r" /\ e.addr = Reg(kBaseCsrng, CSRNG_MAIN_SM_STATE_REG_OFFSET)

MainSmReads(t) == SelectSeq(t, IsMainSmRead)

\* The reads of the main-state register in r, the last entry counting for
\* as many reads as it stands for.
ReadsOf(r) == IF r = <<>> THEN 0 ELSE Len(r) - 1 + r[Len(r)].n

IdleWaitOutcome(t, ret) ==
  /\ IsMainSmRead(t[1])
  /\ MainSmReads(t) = SubSeq(t, 1, Len(MainSmReads(t)))
  /\ ReadsOf(MainSmReads(t)) <= 100000
  /\ \A i \in 1..(Len(MainSmReads(t)) - 1) :
       t[i].val # <<0, \h4e>> /\ t[i].n = 1
  /\ t[Len(MainSmReads(t))].val = <<0, \h4e>>
       => /\ t[Len(MainSmReads(t))].n = 1
          /\ Len(t) > Len(MainSmReads(t))
  /\ t[Len(MainSmReads(t))].val # <<0, \h4e>>
       => /\ ReadsOf(MainSmReads(t)) = 100000
          /\ ret = OTCRYPTO_RECOV_ERR
          /\ Len(t) = Len(MainSmReads(t))
          /\ NoWrite(t)

\* C14: the idle wait ends: it reads the main-state register at most
\* 100000 times, goes on at the first read that returns 0x4e, and when no
\* read returns it the command returns RecoverableError and has written no
\* register.
C14_IdleWaitBounded ==
  (call.op \in DirectCommands /\ call.trace # <<>>)
    => IdleWaitOutcome(call.trace, call.ret)

C14_Witness ==
  /\ call.op = "instantiate"
  /\ call.ret = OTCRYPTO_RECOV_ERR
  /\ Len(call.trace) = 1
  /\ call.trace[1].n = 100000

\* The wait is passed at the second read.
C14_IdleAtSecondRead ==
  /\ call.op = "reseed"
  /\ call.ret = OTCRYPTO_OK
  /\ Len(MainSmReads(call.trace)) = 2

IsCmdReqWrite(e) ==
  e.op = "w" /\ e.addr = Reg(kBaseCsrng, CSRNG_CMD_REQ_REG_OFFSET)

\* Some read of the main-state register that returned idle comes before
\* the i-th access.
IdleSeenBefore(t, i) ==
  \E j \in 1..(i - 1) : IsMainSmRead(t[j]) /\ t[j].val = <<0, \h4e>>

\* C15: the wait for the main state machine to be idle comes before every
\* command written to the CSRNG's own command register, and is not made
\* for the commands relayed through an EDN: bringing the complex up, which
\* sends commands through the EDNs only, does not read the main-state
\* register.
C15_IdleWaitOnlyForOwnInterface ==
  /\ call.op \in DirectCommands
       => \A i \in 1..Len(call.trace) :
            IsCmdReqWrite(call.trace[i]) => IdleSeenBefore(call.trace, i)
  /\ call.op = "init"
       => \A i \in 1..Len(call.trace) : ~IsMainSmRead(call.trace[i])

\* The part of C15 about the CSRNG's own command register.
C15_IdleWaitBeforeOwnCommand ==
  call.op \in DirectCommands
    => \A i \in 1..Len(call.trace) :
         IsCmdReqWrite(call.trace[i]) => IdleSeenBefore(call.trace, i)

\* What the code does instead: with a main state machine that never comes
\* idle, bringing the complex up ends in the idle wait of the first command
\* relayed through EDN0, before any EDN command register is written.
C15_InitStoppedByIdleWait ==
  /\ call.op = "init"
  /\ call.ret = OTCRYPTO_RECOV_ERR
  /\ IsMainSmRead(call.trace[Len(call.trace)])
  /\ call.trace[Len(call.trace)].n = 100000
  /\ \A i \in 1..Len(call.trace) :
       call.trace[i].addr # Reg(kBaseEdn0, EDN_RESEED_CMD_REG_OFFSET)

IsCmdStsRead(e) ==
  e.op = "r" /\ e.addr = Reg(kBaseCsrng, CSRNG_SW_CMD_STS_REG_OFFSET)

CmdReqWrites(t) == SelectSeq(t, IsCmdReqWrite)

\* The place of the first write to the command register.
HeaderAt(t) == CHOOSE i \in 1..Len(t) :
                 IsCmdReqWrite(t[i]) /\ \A j \in 1..(i - 1) : ~IsCmdReqWrite(t[j])

\* The latest read of the command-status register before the i-th access
\* found the ready bit set.
ReadySeenBefore(t, i) ==
  \E j \in 1..(i - 1) :
    /\ IsCmdStsRead(t[j])
    /\ t[j].val[2] % 2 = 1
    /\ \A k \in (j + 1)..(i - 1) : ~IsCmdStsRead(t[k])

SeedLenOf(seed_material) ==
  IF seed_material = NULL THEN 0 ELSE seed_material.len

HeaderThenSeed(t, seed_material) ==
  /\ ReadySeenBefore(t, HeaderAt(t))
  /\ Len(CmdReqWrites(t)) = 1 + SeedLenOf(seed_material)
  /\ Len(t) >= HeaderAt(t) + SeedLenOf(seed_material)
  /\ \A k \in 1..SeedLenOf(seed_material) :
       t[HeaderAt(t) + k]
         = Access("w", Reg(kBaseCsrng, CSRNG_CMD_REQ_REG_OFFSET),
                  seed_material.data[k], 1)

\* C16: the command header is written only after a read of the
\* command-status register has found the ready bit set, and is followed at
\* once by the words of the seed material, in index order, at the address
\* of the header: 1 + word-count writes to that address in all.  A call
\* that returns OK has written its command.
C16_HeaderAfterReady ==
  call.op \in DirectCommands
    => /\ CmdReqWrites(call.trace) # <<>>
            => HeaderThenSeed(call.trace, call.arg.seed_material)
       /\ call.ret = OTCRYPTO_OK => CmdReqWrites(call.trace) # <<>>

C16_Witness ==
  /\ call.op = "instantiate"
  /\ call.arg.seed_material.len = 15
  /\ call.ret = OTCRYPTO_OK
  /\ Len(CmdReqWrites(call.trace)) = 16
  /\ Len(SelectSeq(call.trace, IsCmdStsRead)) = 3

IsIntrState(e) ==
  e.op \in {"r", "w"} /\ e.addr = Reg(kBaseCsrng, CSRNG_INTR_STATE_REG_OFFSET)

IsIntrStateWrite(e) == IsIntrState(e) /\ e.op = "w"

\* With completion tracking: the one write to INTR_STATE sets the
\* cs_cmd_req_done bit (write one to clear) and is the access just before
\* the header; INTR_STATE is read only once header and seed are written.
DoneClearedBeforeHeader(t, seed_material) ==
  /\ Len(SelectSeq(t, IsIntrStateWrite)) = 1
  /\ HeaderAt(t) > 1
  /\ t[HeaderAt(t) - 1]
       = Access("w", Reg(kBaseCsrng, CSRNG_INTR_STATE_REG_OFFSET), <<0, 1>>, 1)
  /\ \A i \in 1..Len(t) :
       (IsIntrState(t[i]) /\ t[i].op = "r")
         => i > HeaderAt(t) + SeedLenOf(seed_material)

\* C17: with completion tracking the done bit is cleared by a write made
\* after all validation and just before the header, so that the done bit
\* the command waits for is read after it was cleared; a command turned
\* away by validation writes nothing.  Without completion tracking (the
\* commands relayed through the EDNs when the complex is brought up)
\* INTR_STATE is never written.
C17_DoneClearedFirst ==
  /\ call.op \in DirectCommands
       => IF CmdReqWrites(call.trace) # <<>>
            THEN DoneClearedBeforeHeader(call.trace, call.arg.seed_material)
            ELSE NoWrite(call.trace)
  /\ call.op = "init"
       => \A i \in 1..Len(call.trace) : ~IsIntrState(call.trace[i])

C17_Witness ==
  /\ call.op = "uninstantiate"
  /\ call.ret = OTCRYPTO_OK
  /\ Len(SelectSeq(call.trace, IsIntrState)) = 3
  /\ IsIntrStateWrite(call.trace[HeaderAt(call.trace) - 1])

\* The commands relayed while the complex is brought up.
C17_RelayedWithoutTracking ==
  /\ call.op = "init"
  /\ call.ret = OTCRYPTO_OK
  /\ \E i \in 1..Len(call.trace) :
       call.trace[i].addr = Reg(kBaseEdn1, EDN_SW_CMD_REQ_REG_OFFSET)

\* The place of the last word of the command.
CommandEnd(t, seed_material) == HeaderAt(t) + SeedLenOf(seed_material)

\* After the command: reads of GENBITS_VLD, none but the last showing the
\* valid bit; the call returns OK once one shows it.
GenerateCompletion(t, from, ret) ==
  /\ \A i \in (from + 1)..Len(t) : IsGenbitsVldRead(t[i])
  /\ \A i \in (from + 1)..(Len(t) - 1) : t[i].val[2] % 2 = 0
  /\ ret \in {OTCRYPTO_OK, HANG}
  /\ ret = OTCRYPTO_OK <=> (Len(t) > from /\ t[Len(t)].val[2] % 2 = 1)

\* The reads of INTR_STATE after the command, none of which shows the done
\* bit: the call has not returned.
DoneAwaited(t, from) ==
  \A i \in (from + 1)..Len(t) :
    /\ t[i].op = "r"
    /\ IsIntrState(t[i])
    /\ t[i].val[2] % 2 = 0

\* After the command: reads of INTR_STATE up to the first that shows the
\* done bit, then one read of the command status, whose status bit decides
\* the result.
DoneThenStatus(t, from, ret) ==
  /\ Len(t) >= from + 2
  /\ DoneAwaited(SubSeq(t, 1, Len(t) - 2), from)
  /\ t[Len(t) - 1].op = "r"
  /\ IsIntrState(t[Len(t) - 1])
  /\ t[Len(t) - 1].val[2] % 2 = 1
  /\ IsCmdStsRead(t[Len(t)])
  /\ ret = IF (t[Len(t)].val[2] \div 2) % 2 = 1
             THEN OTCRYPTO_RECOV_ERR ELSE OTCRYPTO_OK

OtherCompletion(t, from, ret) ==
  IF ret = HANG THEN DoneAwaited(t, from) ELSE DoneThenStatus(t, from, ret)

IsRelayedWrite(e) ==
  /\ e.op = "w"
  /\ e.addr[1] \in {kBaseEdn0, kBaseEdn1}
  /\ e.addr[2] \in {EDN_RESEED_CMD_REG_OFFSET, EDN_GENERATE_CMD_REG_OFFSET,
                    EDN_SW_CMD_REQ_REG_OFFSET}

\* What follows a command relayed through an EDN is the next statement of
\* edn_configure: the idle wait of the next command, the write of the
\* reseed interval, or the wait for the EDN to be ready.
RelayedReturnsAtOnce(t) ==
  \A i \in 1..Len(t) :
    IsRelayedWrite(t[i])
      => /\ Len(t) > i
         /\ t[i + 1].op = IF t[i].addr[2] = EDN_GENERATE_CMD_REG_OFFSET
                            THEN "w" ELSE "r"
         /\ t[i + 1].addr =
              IF t[i].addr[2] = EDN_RESEED_CMD_REG_OFFSET
                THEN Reg(kBaseCsrng, CSRNG_MAIN_SM_STATE_REG_OFFSET)
              ELSE IF t[i].addr[2] = EDN_GENERATE_CMD_REG_OFFSET
                THEN Reg(t[i].addr[1],
                         EDN_MAX_NUM_REQS_BETWEEN_RESEEDS_REG_OFFSET)
              ELSE Reg(t[i].addr[1], EDN_SW_CMD_STS_REG_OFFSET)

\* C18: with completion tracking a generate command returns only once
\* 'generated bits valid' has been read set; every other command returns
\* only once 'command request done' has been read set, and then reads the
\* command status once and returns RecoverableError if its status bit is
\* set, OK if not.  Without completion tracking the call returns straight
\* after the last word of the command.
C18_Completion ==
  /\ (call.op \in DirectCommands \ {"generate"}
      /\ CmdReqWrites(call.trace) # <<>>)
       => IF call.op = "generate_start"
            THEN GenerateCompletion(
                   call.trace,
                   CommandEnd(call.trace, call.arg.seed_material), call.ret)
            ELSE OtherCompletion(
                   call.trace,
                   CommandEnd(call.trace, call.arg.seed_material), call.ret)
  /\ call.op = "init"
       => /\ RelayedReturnsAtOnce(call.trace)
          /\ \A i \in 1..Len(call.trace) : ~IsGenbitsVldRead(call.trace[i])

C18_Witness ==
  /\ call.op = "reseed"
  /\ call.ret = OTCRYPTO_RECOV_ERR
  /\ CmdReqWrites(call.trace) # <<>>
  /\ call.trace[Len(call.trace)].val = <<0, 3>>

C18_GenerateWaitsForValid ==
  /\ call.op = "generate_start"
  /\ call.ret = OTCRYPTO_OK
  /\ Len(SelectSeq(call.trace, IsGenbitsVldRead)) = 2

\* The command id each call sends.
CommandId(op) ==
  IF op = "instantiate" THEN 1
  ELSE IF op = "reseed" THEN 2
  ELSE IF op \in {"generate_start", "generate"} THEN 3
  ELSE IF op = "update" THEN 4
  ELSE 5

\* flag0 for a disable_trng_input: multi-bit true for the hardened true
\* 0x739 and 0 for everything else.
Flag0For(disable_trng_input) == IF disable_trng_input = \h739 THEN 6 ELSE 0

\* The header as a 32-bit word, upper and lower half: id in bits 0-3, seed
\* word count in bits 4-7, flag0 in bits 8-11, generate length from bit 12.
HeaderWord(id, cmd_len, flag0, glen) ==
  << glen \div 16, id + 16 * cmd_len + 256 * flag0 + 4096 * (glen % 16) >>

\* The fields read back from a header.
HeaderFields(word) ==
  [id |-> word[2] % 16,
   cmd_len |-> (word[2] \div 16) % 16,
   flag0 |-> (word[2] \div 256) % 16,
   glen |-> (word[1] % 32768) * 16 + word[2] \div 4096]

HeaderIs(word, id, cmd_len, disable_trng_input, glen) ==
  /\ word = HeaderWord(id, cmd_len, Flag0For(disable_trng_input), glen)
  /\ HeaderFields(word)
       = [id |-> id, cmd_len |-> cmd_len,
          flag0 |-> Flag0For(disable_trng_input), glen |-> glen]

RelayedHeaderIs(e, cmd) ==
  HeaderIs(e.val, cmd.id, 0, cmd.disable_trng_input, cmd.generate_len)

RelayedCommand(config, offset) ==
  IF offset = EDN_RESEED_CMD_REG_OFFSET THEN config.reseed
  ELSE IF offset = EDN_GENERATE_CMD_REG_OFFSET THEN config.generate
  ELSE config.instantiate

\* C19: the header written for an accepted command is the command id in
\* bits 0-3, the seed word count in bits 4-7, the generate length in blocks
\* in bits 12-30, and in bits 8-11 the multi-bit true value when
\* disable_trng_input is exactly the hardened true value and 0 for any
\* other value; every field reads back unchanged.
C19_HeaderEncoding ==
  /\ (call.op \in DirectCommands /\ CmdReqWrites(call.trace) # <<>>)
       => HeaderIs(call.trace[HeaderAt(call.trace)].val,
                   CommandId(call.op),
                   SeedLenOf(call.arg.seed_material),
                   call.arg.disable_trng_input,
                   Blocks(call.arg.len))
  /\ call.op = "init"
       => \A i \in 1..Len(call.trace) :
            IsRelayedWrite(call.trace[i])
              => RelayedHeaderIs(
                   call.trace[i],
                   RelayedCommand(
                     IF call.trace[i].addr[1] = kBaseEdn0
                       THEN cfg[kEntropyComplexConfigIdContinuous].edn0
                       ELSE cfg[kEntropyComplexConfigIdContinuous].edn1,
                     call.trace[i].addr[2]))

C19_Witness ==
  /\ call.op = "instantiate"
  /\ call.arg.disable_trng_input = kHardenedBoolTrue
  /\ call.arg.seed_material.len = 15
  /\ CmdReqWrites(call.trace) # <<>>
  /\ call.trace[HeaderAt(call.trace)].val = <<0, \h6f1>>

\* An instantiate whose disable_trng_input is neither encoding.
C19_InvalidFlagLeftClear ==
  /\ call.op = "instantiate"
  /\ call.arg.disable_trng_input \notin {kHardenedBoolTrue, kHardenedBoolFalse}
  /\ call.arg.seed_material = NULL
  /\ call.ret = OTCRYPTO_OK
  /\ call.trace[HeaderAt(call.trace)].val = <<0, 1>>

\* The longest generate: 0x800 blocks.
C19_LongestGenerate ==
  /\ call.op = "generate_start"
  /\ CmdReqWrites(call.trace) # <<>>
  /\ call.trace[HeaderAt(call.trace)].val = <<\h80, 3>>

\* A hardened boolean that is neither encoding.
InvalidHardenedBool(b) == b \notin {kHardenedBoolTrue, kHardenedBoolFalse}

\* The registers holding the enable and mode fields the checks read back.
EnableModeRegs ==
  {EsReg(ENTROPY_SRC_MODULE_ENABLE_REG_OFFSET),
   EsReg(ENTROPY_SRC_CONF_REG_OFFSET),
   EsReg(ENTROPY_SRC_ENTROPY_CONTROL_REG_OFFSET),
   Reg(kBaseCsrng, CSRNG_CTRL_REG_OFFSET),
   Reg(kBaseEdn0, EDN_CTRL_REG_OFFSET),
   Reg(kBaseEdn1, EDN_CTRL_REG_OFFSET)}

InvalidFlagCall ==
  \/ call.op \in {"instantiate", "reseed"}
       /\ InvalidHardenedBool(call.arg.disable_trng_input)
  \/ call.op = "generate" /\ InvalidHardenedBool(call.arg.fips_check)

InvalidConfigInit ==
  /\ call.op = "init"
  /\ cfg[kEntropyComplexConfigIdContinuous].entropy_src.bypass_conditioner
       \notin {kMultiBitBool4True, kMultiBitBool4False}

InvalidFieldCheck ==
  /\ call.op = "check"
  /\ drift \cap EnableModeRegs # {}

\* C20 as stated: whenever a hardened or multi-bit boolean that is neither
\* the true nor the false encoding is compared, the operation returns a
\* result other than OK.
C20_InvalidIsFailure ==
  ((InvalidFlagCall \/ InvalidConfigInit \/ InvalidFieldCheck) /\ Returned)
    => call.ret # OTCRYPTO_OK

SameOutcome(m) == call.ret = m.ret /\ call.trace = m.trace /\ buf = m.buf

\* C20: every comparison is an exact match against one encoding.  A
\* disable_trng_input that is not the hardened true is handled as false and
\* a fips_check that is not the hardened false is handled as true: the call
\* does what it does for that valid value, and may return OK.  A
\* bypass_conditioner that is not the multi-bit false makes
\* entropy_complex_init return BadArguments, and an enable or mode field
\* read back as neither encoding makes entropy_complex_check return
\* RecoverableError.
C20_ExactMatch ==
  /\ (call.op = "instantiate" /\ InvalidHardenedBool(call.arg.disable_trng_input))
       => /\ call.ret
               = entropy_csrng_instantiate(
                   Machine(call.hw), kHardenedBoolFalse,
                   call.arg.seed_material).ret
          /\ call.trace
               = entropy_csrng_instantiate(
                   Machine(call.hw), kHardenedBoolFalse,
                   call.arg.seed_material).trace
  /\ (call.op = "reseed" /\ InvalidHardenedBool(call.arg.disable_trng_input))
       => /\ call.ret
               = entropy_csrng_reseed(
                   Machine(call.hw), kHardenedBoolFalse,
                   call.arg.seed_material).ret
          /\ call.trace
               = entropy_csrng_reseed(
                   Machine(call.hw), kHardenedBoolFalse,
                   call.arg.seed_material).trace
  /\ (call.op = "generate" /\ InvalidHardenedBool(call.arg.fips_check))
       => SameOutcome(entropy_csrng_generate(
                        [Machine(call.hw) EXCEPT !.buf = EmptyBuffer],
                        call.arg.seed_material, call.arg.len,
                        kHardenedBoolTrue))
  /\ InvalidConfigInit => call.ret = OTCRYPTO_BAD_ARGS
  /\ InvalidFieldCheck => call.ret = OTCRYPTO_RECOV_ERR

\* An instantiate with an invalid disable_trng_input that returned OK.
C20_Witness ==
  /\ call.op = "instantiate"
  /\ InvalidHardenedBool(call.arg.disable_trng_input)
  /\ call.ret = OTCRYPTO_OK

\* A generate with an invalid fips_check failing on bits that are not
\* FIPS-compatible, as it does when the check is asked for.
C20_InvalidFipsCheckEnforced ==
  /\ call.op = "generate"
  /\ InvalidHardenedBool(call.arg.fips_check)
  /\ call.ret = OTCRYPTO_RECOV_ERR
  /\ Stores(call.trace) # <<>>

C20_InvalidBypassRejected == InvalidConfigInit /\ call.ret = OTCRYPTO_BAD_ARGS

C20_InvalidEnableFound ==
  /\ InvalidFieldCheck
  /\ drift = {Reg(kBaseCsrng, CSRNG_CTRL_REG_OFFSET)}
  /\ call.ret = OTCRYPTO_RECOV_ERR

(***************************************************************************)
(* Properties of the EDN and entropy source drivers.                       *)
(***************************************************************************)
IsEdnStsRead(e) ==
  /\ e.op = "r"
  /\ e.addr[1] \in {kBaseEdn0, kBaseEdn1}
  /\ e.addr[2] = EDN_SW_CMD_STS_REG_OFFSET

EdnStsReady(e) == bitfield_bit32_read(e.val, EDN_SW_CMD_STS_CMD_RDY_BIT)
EdnStsError(e) == bitfield_bit32_read(e.val, EDN_SW_CMD_STS_CMD_STS_BIT)

\* C21 as stated: edn_ready_block polls SW_CMD_STS until the ready bit is
\* set, and a read that shows the error-status bit, with the ready bit or
\* without it, ends the call with RecoverableError.
C21_ErrorEndsWait ==
  call.op = "init"
    => \A i \in 1..Len(call.trace) :
         (IsEdnStsRead(call.trace[i]) /\ EdnStsError(call.trace[i]))
           => /\ i = Len(call.trace)
              /\ call.ret = OTCRYPTO_RECOV_ERR

\* What edn_ready_block does: a read without the ready bit is followed by
\* another read of the same register, whatever the error bit, unless the
\* register has settled and the call never returns; a read with the ready
\* bit ends the wait, with RecoverableError when the error bit is set too.
C21_ReadyBlockPolls ==
  call.op = "init"
    => \A i \in 1..Len(call.trace) :
         IsEdnStsRead(call.trace[i])
           => IF ~EdnStsReady(call.trace[i])
                THEN IF i = Len(call.trace) THEN call.ret = HANG
                     ELSE /\ call.trace[i + 1].op = "r"
                          /\ call.trace[i + 1].addr = call.trace[i].addr
                ELSE IF EdnStsError(call.trace[i])
                  THEN i = Len(call.trace) /\ call.ret = OTCRYPTO_RECOV_ERR
                  ELSE i = Len(call.trace) => call.ret = OTCRYPTO_OK

\* The error bit set and the ready bit never: the call does not return.
C21_ErrorWithoutReadyHangs ==
  /\ call.op = "init"
  /\ call.ret = HANG
  /\ IsEdnStsRead(call.trace[Len(call.trace)])
  /\ EdnStsError(call.trace[Len(call.trace)])
  /\ ~EdnStsReady(call.trace[Len(call.trace)])

\* The four 4-bit fields of an EDN CTRL value: enable, boot-request mode,
\* auto-request mode, command FIFO reset.
CtrlEnable(v) == v[2] % 16
CtrlBootReq(v) == (v[2] \div 16) % 16
CtrlAutoReq(v) == (v[2] \div 256) % 16
CtrlFifoRst(v) == (v[2] \div 4096) % 16

IsCtrlWrite(e, edn) ==
  e.op = "w" /\ e.addr = Reg(edn, EDN_CTRL_REG_OFFSET)

\* edn_stop of the EDN at edn, starting at access i of the trace t.
EdnStopAt(t, i, edn) ==
  /\ t[i].op = "r" /\ t[i].addr = Reg(edn, EDN_CTRL_REG_OFFSET)
  /\ IsCtrlWrite(t[i + 1], edn)
  /\ CtrlFifoRst(t[i + 1].val) = 6
  /\ CtrlEnable(t[i + 1].val) = CtrlEnable(t[i].val)
  /\ CtrlBootReq(t[i + 1].val) = CtrlBootReq(t[i].val)
  /\ CtrlAutoReq(t[i + 1].val) = CtrlAutoReq(t[i].val)
  /\ t[i + 1].val[1] = t[i].val[1]
  /\ IsCtrlWrite(t[i + 2], edn)
  /\ t[i + 2].val = <<0, \h9999>>
  /\ \A j \in (i + 3)..TeardownLen : ~IsCtrlWrite(t[j], edn)

\* C22: edn_stop writes CTRL with the command FIFO reset field set to true
\* and every other field as just read, then writes CTRL once more, with its
\* reset value, which disables the EDN and takes the FIFO reset back in one
\* write; CTRL holds its reset value afterwards, and no value written has
\* the EDN enabled with the FIFO reset not asserted.
C22_EdnStop ==
  call.op = "init"
    => /\ EdnStopAt(call.trace, 1, kBaseEdn0)
       /\ EdnStopAt(call.trace, 4, kBaseEdn1)
       /\ \A i \in 1..TeardownLen :
            call.trace[i].op = "w" /\ call.trace[i].addr[2] = EDN_CTRL_REG_OFFSET
              => ~(CtrlEnable(call.trace[i].val) = 6
                   /\ CtrlFifoRst(call.trace[i].val) # 6)
       /\ Len(call.trace) = TeardownLen
            => /\ regs[Reg(kBaseEdn0, EDN_CTRL_REG_OFFSET)] = <<0, \h9999>>
               /\ regs[Reg(kBaseEdn1, EDN_CTRL_REG_OFFSET)] = <<0, \h9999>>

\* A teardown that finds EDN0 enabled in auto-request mode: the FIFO reset
\* is asserted with the EDN still enabled.
C22_Witness ==
  /\ call.op = "init"
  /\ call.trace[1].val = <<0, \h0606>>
  /\ call.trace[2].val = <<0, \h6606>>
  /\ call.trace[3].val = <<0, \h9999>>

\* A teardown that ends the call, leaving the EDNs stopped.
C22_StoppedAtReturn ==
  /\ call.op = "init"
  /\ call.ret = OTCRYPTO_BAD_ARGS
  /\ Len(call.trace) = TeardownLen

\* The accesses entropy_complex_init makes to the EDN at edn once the
\* teardown is over, and the writes among them.
EdnAccesses(t, edn) ==
  SelectSeq(SubSeq(t, TeardownLen + 1, Len(t)), LAMBDA e : e.addr[1] = edn)

EdnWrites(t, edn) == SelectSeq(EdnAccesses(t, edn), LAMBDA e : e.op = "w")

WritesUpTo(a, i) == Len(SelectSeq(SubSeq(a, 1, i), LAMBDA e : e.op = "w"))

\* The registers edn_configure writes, in the order it writes them.
EdnWriteOrder ==
  << EDN_RESEED_CMD_REG_OFFSET, EDN_GENERATE_CMD_REG_OFFSET,
     EDN_MAX_NUM_REQS_BETWEEN_RESEEDS_REG_OFFSET, EDN_CTRL_REG_OFFSET,
     EDN_SW_CMD_REQ_REG_OFFSET >>

ReadyNoError(e) == IsEdnStsRead(e) /\ EdnStsReady(e) /\ ~EdnStsError(e)

\* The steps of edn_configure as seen on the accesses a to one EDN.
EdnConfigureSteps(a, config) ==
  /\ WritesUpTo(a, Len(a)) <= Len(EdnWriteOrder)
  /\ \A i \in 1..Len(a) :
       IF a[i].op = "w"
         THEN /\ a[i].addr[2] = EdnWriteOrder[WritesUpTo(a, i)]
              /\ a[i].addr[2] = EDN_MAX_NUM_REQS_BETWEEN_RESEEDS_REG_OFFSET
                   => a[i].val = <<0, config.reseed_interval>>
              /\ a[i].addr[2] = EDN_CTRL_REG_OFFSET
                   => /\ CtrlEnable(a[i].val) = 6
                      /\ CtrlAutoReq(a[i].val) = 6
                      /\ i < Len(a) => IsEdnStsRead(a[i + 1])
              /\ a[i].addr[2] = EDN_SW_CMD_REQ_REG_OFFSET
                   => /\ ReadyNoError(a[i - 1])
                      /\ i < Len(a)
                      /\ IsEdnStsRead(a[i + 1])
         ELSE /\ IsEdnStsRead(a[i])
              /\ WritesUpTo(a, i) >= 4
              /\ ~EdnStsReady(a[i])
                   => i = Len(a) \/ (a[i + 1].op = "r")
              /\ EdnStsError(a[i]) /\ EdnStsReady(a[i]) => i = Len(a)

\* The accesses show edn_configure to have run to its end with OK.
EdnConfigured(a) ==
  /\ WritesUpTo(a, Len(a)) = Len(EdnWriteOrder)
  /\ ReadyNoError(a[Len(a)])

\* C23: edn_configure writes the reseed command, the generate command, the
\* reseed interval and CTRL with enable and auto-request mode true, waits
\* for the EDN to be ready, writes the instantiate command and waits for
\* the EDN to be ready again; the instantiate command is written only after
\* the EDN was enabled and read ready; a step that fails ends the call; the
\* result is the result of the last wait.
C23_EdnConfigureOrder ==
  call.op = "init"
    => /\ EdnConfigureSteps(
            EdnAccesses(call.trace, kBaseEdn0),
            cfg[kEntropyComplexConfigIdContinuous].edn0)
       /\ EdnConfigureSteps(
            EdnAccesses(call.trace, kBaseEdn1),
            cfg[kEntropyComplexConfigIdContinuous].edn1)
       /\ EdnAccesses(call.trace, kBaseEdn1) # <<>>
            => EdnConfigured(EdnAccesses(call.trace, kBaseEdn0))
       /\ call.ret = OTCRYPTO_OK
            <=> EdnConfigured(EdnAccesses(call.trace, kBaseEdn1))
       /\ WritesUpTo(EdnAccesses(call.trace, kBaseEdn1),
                     Len(EdnAccesses(call.trace, kBaseEdn1)))
            = Len(EdnWriteOrder)
            => /\ IsEdnStsRead(call.trace[Len(call.trace)])
               /\ call.ret
                    = IF ~EdnStsReady(call.trace[Len(call.trace)]) THEN HANG
                      ELSE IF EdnStsError(call.trace[Len(call.trace)])
                        THEN OTCRYPTO_RECOV_ERR
                      ELSE OTCRYPTO_OK

\* A bring-up whose EDNs answer "not ready" before they are ready.
C23_Witness ==
  /\ call.op = "init"
  /\ call.ret = OTCRYPTO_OK
  /\ call.hw = HwNominal(MaxPoll)
  /\ Len(EdnAccesses(call.trace, kBaseEdn1)) > Len(EdnWriteOrder) + 2

\* An EDN1 that reports an error at its last wait.
C23_LastWaitFails ==
  /\ call.op = "init"
  /\ call.ret = OTCRYPTO_RECOV_ERR
  /\ Len(EdnWrites(call.trace, kBaseEdn1)) = Len(EdnWriteOrder)

\* An EDN0 that reports an error at its first wait: no instantiate command.
C23_FirstWaitFails ==
  /\ call.op = "init"
  /\ call.ret = OTCRYPTO_RECOV_ERR
  /\ Len(EdnWrites(call.trace, kBaseEdn0)) = 4
  /\ IsEdnStsRead(call.trace[Len(call.trace)])

(***************************************************************************)
(* Properties of the entropy source driver (SpecEs).                       *)
(***************************************************************************)
EsConfig == cfg[kEntropyComplexConfigIdContinuous].entropy_src

\* C24: entropy_src_configure with a bypass-conditioner flag that is not
\* the multi-bit false returns BadArguments and accesses no register;
\* module-enable keeps the disabled value it had.
C24_BypassRejected ==
  (call.op = "es_configure" /\ EsConfig.bypass_conditioner # 9)
    => /\ call.ret = OTCRYPTO_BAD_ARGS
       /\ call.trace = <<>>
       /\ regs[EsReg(ENTROPY_SRC_MODULE_ENABLE_REG_OFFSET)] = <<0, 9>>

\* The flag is neither encoding.
C24_Witness ==
  /\ call.op = "es_configure"
  /\ EsConfig.bypass_conditioner = 0
  /\ call.ret = OTCRYPTO_BAD_ARGS

C24_TrueRejected ==
  /\ call.op = "es_configure"
  /\ EsConfig.bypass_conditioner = 6
  /\ call.ret = OTCRYPTO_BAD_ARGS

\* A threshold register written with its reset value but for the FIPS
\* threshold in the lower half: the upper half resets to all ones for the
\* high thresholds and to zero for the low ones.
ThresholdWrite(name, value) ==
  Access("w", ThresholdReg(name),
         << IF name \in {"ADAPTP_LO", "MARKOV_LO", "EXTHT_LO"}
              THEN 0 ELSE \hffff,
            value >>, 1)

\* The writes of entropy_src_configure for the settings c.
ConfigureWrites(c) ==
  << Access("w", EsReg(ENTROPY_SRC_ENTROPY_CONTROL_REG_OFFSET),
            <<0, c.route_to_firmware + 16 * c.bypass_conditioner>>, 1),
     Access("w", EsReg(ENTROPY_SRC_CONF_REG_OFFSET),
            <<16 * c.single_bit_mode,
              c.fips_enable + 16 * c.route_to_firmware + 4096 * 9>>, 1),
     Access("w", EsReg(ENTROPY_SRC_HEALTH_TEST_WINDOWS_REG_OFFSET),
            <<\h60, c.fips_test_window_size>>, 1),
     Access("w", EsReg(ENTROPY_SRC_ALERT_THRESHOLD_REG_OFFSET),
            <<\hffff - c.alert_threshold, c.alert_threshold>>, 1),
     ThresholdWrite("REPCNT", c.repcnt_threshold),
     ThresholdWrite("REPCNTS", c.repcnts_threshold),
     ThresholdWrite("ADAPTP_HI", c.adaptp_hi_threshold),
     ThresholdWrite("ADAPTP_LO", c.adaptp_lo_threshold),
     ThresholdWrite("BUCKET", c.bucket_threshold),
     ThresholdWrite("MARKOV_HI", c.markov_hi_threshold),
     ThresholdWrite("MARKOV_LO", c.markov_lo_threshold),
     ThresholdWrite("EXTHT_HI", c.extht_hi_threshold),
     ThresholdWrite("EXTHT_LO", c.extht_lo_threshold),
     Access("w", EsReg(ENTROPY_SRC_MODULE_ENABLE_REG_OFFSET), <<0, 6>>, 1) >>

\* C25: entropy_src_configure writes entropy control, configuration, the
\* health-test window, the alert threshold with its bitwise inverse, the
\* nine threshold registers and module-enable, in that order and nothing
\* else, so module-enable is written last; each threshold register gets
\* its reset value with only the FIPS threshold replaced.
C25_ConfigureOrder ==
  (call.op = "es_configure" /\ EsConfig.bypass_conditioner = 9)
    => /\ call.ret = OTCRYPTO_OK
       /\ call.trace = ConfigureWrites(EsConfig)
       /\ \A i \in 1..(Len(call.trace) - 1) :
            call.trace[i].addr
              # EsReg(ENTROPY_SRC_MODULE_ENABLE_REG_OFFSET)

\* Nine thresholds that all differ, single-bit mode, the largest alert
\* threshold.
C25_Witness ==
  /\ call.op = "es_configure"
  /\ call.ret = OTCRYPTO_OK
  /\ EsConfig.repcnt_threshold = 1
  /\ EsConfig.extht_lo_threshold = 9
  /\ EsConfig.single_bit_mode = 6
  /\ EsConfig.alert_threshold = \hffff
  /\ Len(call.trace) = 14

\* The registers of the entropy source other than module-enable that
\* entropy_src_stop may write, each with its reset value.
StopResetValues ==
  << <<EsReg(ENTROPY_SRC_ENTROPY_CONTROL_REG_OFFSET), <<0, \h99>> >>,
     <<EsReg(ENTROPY_SRC_CONF_REG_OFFSET), <<\h90, \h9099>> >>,
     <<EsReg(ENTROPY_SRC_HEALTH_TEST_WINDOWS_REG_OFFSET), <<\h60, \h200>> >>,
     <<EsReg(ENTROPY_SRC_ALERT_THRESHOLD_REG_OFFSET), <<\hfffd, 2>> >> >>

\* The trace t is a write of module-enable with its reset value followed by
\* n writes of other registers, all different, each with its reset value.
StopWrites(t, n) ==
  /\ Len(t) = 1 + n
  /\ t[1] = Access("w", EsReg(ENTROPY_SRC_MODULE_ENABLE_REG_OFFSET),
                   <<0, 9>>, 1)
  /\ \A i \in 2..Len(t) :
       /\ t[i].op = "w"
       /\ \E k \in 1..Len(StopResetValues) :
            t[i].addr = StopResetValues[k][1] /\ t[i].val = StopResetValues[k][2]
       /\ \A j \in 2..Len(t) : t[j].addr = t[i].addr => j = i

PassesValidation(c) ==
  c.fips_enable = 6 /\ c.bypass_conditioner = 9 /\ c.route_to_firmware = 9

C29_CheckAfterConfigureWholeSymbols ==
  (/\ call.op = "es_check"
   /\ PassesValidation(EsConfig)
   /\ EsConfig.single_bit_mode = 9)
    => call.ret = OTCRYPTO_OK

\* Single-bit mode asked for: the check fails at CONF, its second read.
C29_SingleBitModeFailsCheck ==
  /\ call.op = "es_check"
  /\ PassesValidation(EsConfig)
  /\ EsConfig.single_bit_mode = 6
  /\ call.ret = OTCRYPTO_RECOV_ERR
  /\ Len(call.trace) = 2
  /\ call.trace[2].addr = EsReg(ENTROPY_SRC_CONF_REG_OFFSET)

C29_OtherSettingsPass ==
  /\ call.op = "es_check"
  /\ call.ret = OTCRYPTO_OK
  /\ EsConfig.repcnt_threshold = 1
  /\ EsConfig.alert_threshold = \hffff
  /\ EsConfig.fips_test_window_size = \hffff

(***************************************************************************)
(* Properties of a bring-up that failed (Spec).                            *)
(***************************************************************************)
\* C30: when entropy_complex_init returns an error, an
\* entropy_complex_check called right after it, with no register changed
\* in between, does not return OK.
C30_NoAttestationAfterFailure ==
  [][(/\ call.op = "init"
      /\ call.ret \notin {OTCRYPTO_OK, HANG}
      /\ call'.op = "check")
       => call'.ret # OTCRYPTO_OK]_vars

\* A bring-up that failed before the last EDN was enabled is found out.
C30_EarlyFailureFound ==
  [][(/\ call.op = "init"
      /\ call.ret \notin {OTCRYPTO_OK, HANG}
      /\ CtrlEnable(regs[Reg(kBaseEdn1, EDN_CTRL_REG_OFFSET)]) # 6
      /\ call'.op = "check")
       => call'.ret # OTCRYPTO_OK]_vars

\* The check passed although the bring-up before it had failed at the last
\* wait for EDN1.
C30_AttestedAfterFailure ==
  /\ call.op = "check"
  /\ call.ret = OTCRYPTO_OK
  /\ up = OTCRYPTO_RECOV_ERR

(***************************************************************************)
(* Properties of entropy_csrng_generate on the FIFO of the CSRNG (SpecCmd).*)
(***************************************************************************)
\* The generate length, in blocks, that the header of the call asks for.
RequestedBlocks(t) ==
  (t[HeaderAt(t)].val[1] % 32768) * 16 + t[HeaderAt(t)].val[2] \div 4096

\* The hardware as the call in the current state leaves it.
HwAfterGenerate ==
  entropy_csrng_generate([Machine(call.hw) EXCEPT !.buf = EmptyBuffer],
                         call.arg.seed_material, call.arg.len,
                         call.arg.fips_check).hw

\* C27: an entropy_csrng_generate that returns OK has asked in its header
\* for ceil(len/4) blocks and has read four words from GENBITS for each of
\* them and no more; a CSRNG that keeps count owes no word afterwards and
\* was never read while it owed none.
C27_DrainsWhatItRequested ==
  (call.op = "generate" /\ call.ret = OTCRYPTO_OK)
    => /\ RequestedBlocks(call.trace) = Blocks(call.arg.len)
       /\ Len(GenbitsReads(call.trace)) = 4 * RequestedBlocks(call.trace)
       /\ HasFifo(call.hw)
            => HwAfterGenerate[CsrngFifo] = << <<0, 0, 0>> >>

\* A request that ends inside its third block, on a CSRNG that keeps count.
C27_Witness ==
  /\ call.op = "generate"
  /\ call.ret = OTCRYPTO_OK
  /\ call.arg.len = MaxLen
  /\ call.arg.seed_material.len = 2
  /\ HasFifo(call.hw)
  /\ Len(GenbitsReads(call.trace)) = 4 * 3

\* An entropy_csrng_generate on idle and ready hardware whose CSRNG shows
\* its generated bits valid only while it owes words of a generate command.
GenerateOnCountingHw == call.op = "generate" /\ call.hw = CmdHwCounting

\* C28 as stated: on such hardware entropy_csrng_generate returns for
\* every len, len = 0 included.
C28_GenerateTerminates == GenerateOnCountingHw => call.ret # HANG

\* For a len of at least one word the call returns.
C28_TerminatesWhenWordsAsked ==
  (GenerateOnCountingHw /\ call.arg.len > 0) => call.ret # HANG

\* len = 0: the header asks for no block, and the wait for valid bits that
\* follows it never ends.
C28_EmptyRequestHangs ==
  /\ GenerateOnCountingHw
  /\ call.arg.len = 0
  /\ call.arg.seed_material = NULL
  /\ call.ret = HANG
  /\ RequestedBlocks(call.trace) = 0
  /\ IsGenbitsVldRead(call.trace[Len(call.trace)])
  /\ GenbitsReads(call.trace) = <<>>

C28_WordsAskedReturn ==
  /\ GenerateOnCountingHw
  /\ call.arg.len = 1
  /\ call.ret = OTCRYPTO_OK

====
